---- MODULE Spec2Model ----
(***************************************************************************)
(* WealthWise: the reward engine of the REST server (login streak, coin    *)
(* awards of the expense / saving / goal handlers) over the row store.     *)
(*                                                                         *)
(* Time is counted in whole hours since the Unix epoch.  The login handler *)
(* compares (now - lastLogin) / 3600000 ms against 20 and 48; on whole     *)
(* hours the comparisons are the same ones, and the boundary values 20 and *)
(* 48 are hit exactly.                                                     *)
(*                                                                         *)
(* Every handler is an async function: each `await` on the storage is a    *)
(* point where another request of the same user can run, so a handler is   *)
(* one action per awaited storage call, and the requests in flight are the *)
(* slots of `reqs`.                                                        *)
(*                                                                         *)
(* The pure computations (fallback tier rule, weekly savings target,       *)
(* monthly report) are applied to inputs drawn in the initial state and    *)
(* leave their result in `calc`.                                           *)
(***************************************************************************)
EXTENDS Integers, FiniteSets, Sequences, TLC

VARIABLES
  now,          \* the server clock (new Date()), in hours
  users,        \* users table: id -> [coins, streak, lastLogin]
  expenses,     \* expenses table: set of rows
  savings,      \* savings table: set of rows
  goals,        \* goals table: id -> row
  achievements, \* achievements table: set of rows
  predictions,  \* predictions table: set of rows
  sessions,     \* session store: the users that a session has logged in
  userContext,  \* the client's UserProvider: user -> the coins it shows
  nextId,       \* the serial id counters of the tables
  goalView,     \* the goals as last fetched by the client (react-query cache)
  reqs,         \* the requests in flight: slot -> request
  hist,         \* history: the awards made so far (see InitHist)
  budget,       \* what is left of the bounds of the run
  calc          \* the call of a pure function: its arguments and its result

vars == <<now, users, expenses, savings, goals, achievements, predictions,
          sessions, userContext, nextId, goalView, reqs, hist, budget, calc>>

----------------------------------------------------------------------------
(* Bounds of the model *)

StartHour == 100
MaxSlots == 2
MaxTicks == 2
MaxLogins == 3
MaxReqs == 2
MaxSpecLogins == 2
MaxGoalReqs == 3
MaxAutoFillReqs == 1
MaxOwnerReqs == 2
MaxCreateReqs == 1
MaxEditReqs == 3
MaxPredictReqs == 3
MaxAllocReqs == 2
MaxAuthReqs == 2
MaxClientLogins == 1
MaxClientReqs == 2
MaxGoalLifeReqs == 3
GoalTarget == 2

(* The clock advances by these steps: 20 is the last hour of the guard     *)
(* band, 21 the first hour past it, 20 + 20 and 20 + 21 are inside the     *)
(* increment window, 48 is the reset boundary.                             *)
TickHours == {20, 21, 48}

(* streak values of the users present at start: 0 as written by register,  *)
(* 4 as written for the demo user, 9 one login before the second milestone *)
InitStreaks == {0, 4, 9}

Slots == 1..MaxSlots

----------------------------------------------------------------------------
(* Program constants *)

GuardHours == 20
ResetHours == 48
DailyLoginCoins == 15
StreakBonusCoins == 20
StreakMilestone == 5
FirstExpenseCoins == 10
PiggyBankCoins == 5
GoalCoins == 100
HoursPerDay == 24

(* user.lastLogin is a nullable column *)
NoLogin == -1

NoUser == [coins |-> 0, streak |-> 0, lastLogin |-> NoLogin]
NoGoal == [userId |-> 0, name |-> "", targetAmount |-> 0, currentAmount |-> 0,
           completed |-> FALSE]
NoBody == [op |-> "none"]
NoCalc == [fn |-> "none"]

(* history: per user the time of the latest coin-awarding login and the sum
   of the coins the handlers awarded; per goal the number of goal awards,
   the sum of the amounts of the allocations stored and the number of
   mark-complete updates stored; per user the days on which the user has
   created an expense, and for each day the number of first-expense awards
   made on it *)
InitHist(U, G) ==
  [lastAward |-> [u \in U |-> NoLogin],
   awarded |-> [u \in U |-> 0],
   loggedDays |-> [u \in U |-> {}],
   expenseAwards |-> [u \in U |-> << >>],
   goalAwards |-> [g \in G |-> 0],
   allocated |-> [g \in G |-> 0],
   marked |-> [g \in G |-> 0]]

(* an empty slot *)
Idle == [kind |-> "idle", pc |-> "idle", uid |-> 0, user |-> NoUser,
         body |-> NoBody, goalId |-> 0, goal |-> NoGoal, rowId |-> 0,
         at |-> 0, hours |-> 0, sinceAward |-> -1,
         coinsAwarded |-> 0, status |-> 0, respCoinsAwarded |-> <<>>,
         pre |-> NoUser, post |-> NoUser,
         amountInPaise |-> 0, did |-> {},
         firstOfDay |-> FALSE, categoryReply |-> "", statusReply |-> "",
         aiCalls |-> 0, cause |-> "", message |-> "", issues |-> {},
         month |-> 0, avgAmount |-> 0, categoriesObj |-> << >>,
         existingPrediction |-> {}]

----------------------------------------------------------------------------
(* POST /api/auth/login: the streak rule *)

(* const lastLogin = user.lastLogin || new Date(0);
   hoursSinceLastLogin = (now - lastLogin) / 3600000 *)
HoursSinceLastLoginNullIsNow(lastLogin, t) ==
  IF lastLogin = NoLogin THEN 0 ELSE t - lastLogin

HoursSinceLastLogin(lastLogin, t) ==
  t - (IF lastLogin = NoLogin THEN 0 ELSE lastLogin)

LoginNewStreakNoIncrement(streak, hours) ==
  IF hours > GuardHours
    THEN IF hours < ResetHours THEN streak ELSE 1
    ELSE streak

LoginNewStreakResetAfter48(streak, hours) ==
  IF hours > GuardHours
    THEN IF hours <= ResetHours THEN streak + 1 ELSE 1
    ELSE streak

LoginNewStreak(streak, hours) ==
  IF hours > GuardHours
    THEN IF hours < ResetHours THEN streak + 1 ELSE 1
    ELSE streak

LoginCoinsAwardedOnlyFirstMilestone(streak, hours) ==
  IF hours > GuardHours
    THEN IF hours < ResetHours
           THEN DailyLoginCoins +
                (IF streak + 1 = StreakMilestone THEN StreakBonusCoins ELSE 0)
           ELSE DailyLoginCoins
    ELSE 0

LoginCoinsAwarded(streak, hours) ==
  IF hours > GuardHours
    THEN IF hours < ResetHours
           THEN DailyLoginCoins +
                (IF streak + 1 = StreakMilestone
                    \/ (streak + 1) % StreakMilestone = 0
                   THEN StreakBonusCoins ELSE 0)
           ELSE DailyLoginCoins
    ELSE 0

(* coinsAwarded: coinsAwarded > 0 ? coinsAwarded : undefined -- the JSON
   response has the field only when it is positive *)
RespCoinsAwarded(c) == IF c > 0 THEN <<c>> ELSE <<>>

(* storage.updateUser(id, data): UPDATE users SET data WHERE id *)
updateUser(id, data) ==
  [users EXCEPT ![id] = [f \in DOMAIN @ |-> IF f \in DOMAIN data THEN data[f] ELSE @[f]]]

(* a new request takes the first free slot (the slots are only names) *)
FreeSlot(r) ==
  /\ reqs[r].pc = "idle"
  /\ \A r2 \in Slots : r2 < r => reqs[r2].pc # "idle"

(* the strategy's getUserByUsername and password check *)
LoginAuth(r) ==
  /\ FreeSlot(r)
  /\ budget.logins > 0
  /\ \E u \in DOMAIN users, passwordOk \in BOOLEAN :
       reqs' = [reqs EXCEPT ![r] =
                  IF passwordOk
                    THEN [Idle EXCEPT !.kind = "login", !.pc = "update",
                                      !.uid = u, !.user = users[u]]
                    ELSE [Idle EXCEPT !.kind = "login", !.pc = "done",
                                      !.uid = u, !.status = 401]]
  /\ budget' = [budget EXCEPT !.logins = @ - 1]
  /\ UNCHANGED <<userContext, sessions, predictions, calc, now, users,
                 expenses, savings, goals, achievements, nextId, goalView,
                 hist>>

(* req.login (the session) and its callback: the streak rule, updateUser
   and the response *)
LoginUpdate(r) ==
  /\ reqs[r].kind = "login"
  /\ reqs[r].pc = "update"
  /\ LET q == reqs[r]
         user == q.user
         hours == HoursSinceLastLogin(user.lastLogin, now)
         newStreak == LoginNewStreak(user.streak, hours)
         awarded == LoginCoinsAwarded(user.streak, hours)
         updated == updateUser(q.uid, [lastLogin |-> now, streak |-> newStreak,
                                       coins |-> user.coins + awarded])
     IN /\ users' = updated
        /\ sessions' = sessions \cup {q.uid}
        /\ hist' = IF awarded > 0
                     THEN [hist EXCEPT !.lastAward[q.uid] = now,
                                       !.awarded[q.uid] = @ + awarded]
                     ELSE hist
        /\ reqs' = [reqs EXCEPT ![r] =
                      [q EXCEPT !.pc = "done", !.status = 200, !.at = now,
                                !.hours = hours,
                                !.sinceAward = IF hist.lastAward[q.uid] = NoLogin
                                                 THEN -1
                                                 ELSE now - hist.lastAward[q.uid],
                                !.coinsAwarded = awarded,
                                !.respCoinsAwarded = RespCoinsAwarded(awarded),
                                !.pre = users[q.uid],
                                !.post = updated[q.uid]]]
  /\ UNCHANGED <<userContext, predictions, calc, now, expenses, savings,
                 goals, achievements, nextId, goalView, budget>>

----------------------------------------------------------------------------
(* The authenticated routes.  passport.session() runs deserializeUser      *)
(* before the handler: req.user is the users row as read at that moment.   *)

(* goalId is req.params.id of the routes with an :id; amountInPaise is what
   the allocation dialog handed to the goal card, 0 for the other requests;
   did is the set of the writes the handler made *)
Deserialize(r, u, kind, goalId, body, amountInPaise) ==
  /\ FreeSlot(r)
  /\ budget.reqs > 0
  /\ reqs' = [reqs EXCEPT ![r] =
                [Idle EXCEPT !.kind = kind, !.pc = "handler", !.uid = u,
                             !.user = users[u], !.goalId = goalId,
                             !.body = body, !.amountInPaise = amountInPaise]]
  /\ budget' = [budget EXCEPT !.reqs = @ - 1]

(* res.status(..).json(..) *)
Respond(q, status, respCoins) ==
  [q EXCEPT !.pc = "done", !.status = status, !.respCoinsAwarded = respCoins]

(* return res.status(404).json({ message }); cause records which of the two
   the handler met: a row that does not exist or a row of another user *)
RespondNotFound(q, rows, message) ==
  [Respond(q, 404, <<>>) EXCEPT !.message = message,
                                !.cause = IF rows = {} THEN "missing" ELSE "foreign"]

(* handleZodError(err, res) with a ZodError: 400, and a message that lists
   path: message of every issue *)
RespondValidationError(q, issues) ==
  [Respond(q, 400, <<>>) EXCEPT !.message = "Validation error", !.issues = issues]

(* if (!row || row.userId !== user.id): rows is what the lookup by id found *)
NotOwnedWhenMissing(rows, uid) == rows = {}

NotOwned(rows, uid) == rows = {} \/ \E e \in rows : e.userId # uid

----------------------------------------------------------------------------
(* POST /api/auth/register and the handlers Express has for the two auth   *)
(* routes.  A request runs the handlers of its route in the order they     *)
(* were registered; a handler that answers without calling next() ends it, *)
(* and next(error) goes to the error handler, past every other handler.    *)

(* registerRoutes: setupAuth(app) registers the handlers of auth.ts, and
   the validators with loginSchema / insertUserSchema are registered after
   it *)
AuthRouteOrder == <<"setupAuth", "validator">>

(* The bodies of a registration.  name and password are "string" when the
   field is a string, "missing" when it is not there; coins (a column of
   the users table, so a key of insertUserSchema) is "absent", a "number"
   or a "string". *)
(* insertUserSchema.parse(req.body): the paths of the issues *)
insertUserSchemaIssues(b) ==
  (IF b.name # "string" THEN {"name"} ELSE {})
    \cup (IF b.password # "string" THEN {"password"} ELSE {})
    \cup (IF b.coins \notin {"absent", "number"} THEN {"coins"} ELSE {})

(* storage.getUserByUsername(username) *)
getUserByUsername(username) ==
  {u \in DOMAIN users : users[u].username = username}

(* the request, with one of these bodies, reaches the first handler of the
   route *)
RegisterStart(r) ==
  /\ FreeSlot(r)
  /\ budget.reqs > 0
  /\ \E un \in {"demo", "new"}, n \in {"string", "missing"},
        pw \in {"string", "missing"}, c \in {"absent", "string"} :
       reqs' = [reqs EXCEPT ![r] =
                  [Idle EXCEPT !.kind = "register", !.pc = AuthRouteOrder[1],
                               !.body = [username |-> un, name |-> n,
                                         password |-> pw, coins |-> c]]]
  /\ budget' = [budget EXCEPT !.reqs = @ - 1]
  /\ UNCHANGED <<userContext, sessions, predictions, calc, now, users,
                 expenses, savings, goals, achievements, nextId, goalView,
                 hist>>

(* the handler of auth.ts: existingUser = getUserByUsername(..), 400 when
   there is one; the handler of routes.ts: insertUserSchema.parse, next() *)
RegisterLookup(r) ==
  /\ reqs[r].kind = "register"
  /\ reqs[r].pc \in {"setupAuth", "validator"}
  /\ LET q == reqs[r]
         issues == insertUserSchemaIssues(q.body)
     IN reqs' = [reqs EXCEPT ![r] =
          IF q.pc = "validator"
            THEN IF issues # {} THEN RespondValidationError(q, issues)
                 ELSE IF AuthRouteOrder[Len(AuthRouteOrder)] = "validator"
                   THEN Respond(q, 404, <<>>)
                   ELSE [q EXCEPT !.pc = "setupAuth"]
            ELSE IF getUserByUsername(q.body.username) # {}
                   THEN [Respond(q, 400, <<>>) EXCEPT
                           !.message = "Username already exists"]
                   ELSE [q EXCEPT !.pc = "create"]]
  /\ UNCHANGED <<userContext, sessions, predictions, calc, now, users,
                 expenses, savings, goals, achievements, nextId, goalView,
                 hist, budget>>

(* hashedPassword = hashPassword(req.body.password): scrypt throws when the
   password is not a string; user = storage.createUser({...req.body,
   password, coins: 0, streak: 0, lastLogin: new Date()}): the insert is
   rejected when name is missing (not null) or the username is taken by now
   (unique); the catch calls next(error): 500 *)
RegisterCreate(r) ==
  /\ reqs[r].kind = "register"
  /\ reqs[r].pc = "create"
  /\ LET q == reqs[r]
         id == Cardinality(DOMAIN users) + 1
         row == [coins |-> 0, streak |-> 0, lastLogin |-> now,
                 username |-> q.body.username]
     IN IF \/ q.body.password # "string"
           \/ q.body.name # "string"
           \/ getUserByUsername(q.body.username) # {}
          THEN /\ reqs' = [reqs EXCEPT ![r] = Respond(q, 500, <<>>)]
               /\ UNCHANGED <<users, hist>>
          ELSE /\ users' = [u \in DOMAIN users \cup {id} |->
                              IF u = id THEN row ELSE users[u]]
               /\ hist' = [hist EXCEPT
                     !.lastAward = [u \in DOMAIN @ \cup {id} |->
                                      IF u = id THEN NoLogin ELSE @[u]],
                     !.awarded = [u \in DOMAIN @ \cup {id} |->
                                    IF u = id THEN 0 ELSE @[u]],
                     !.loggedDays = [u \in DOMAIN @ \cup {id} |->
                                       IF u = id THEN {} ELSE @[u]],
                     !.expenseAwards = [u \in DOMAIN @ \cup {id} |->
                                          IF u = id THEN << >> ELSE @[u]]]
               /\ reqs' = [reqs EXCEPT ![r] =
                             [q EXCEPT !.pc = "login", !.uid = id,
                                       !.did = @ \cup {"user"}]]
  /\ UNCHANGED <<userContext, sessions, predictions, calc, now, expenses,
                 savings, goals, achievements, nextId, goalView, budget>>

(* req.login(user, ..): the session; res.status(201).json(user) *)
RegisterLogin(r) ==
  /\ reqs[r].kind = "register"
  /\ reqs[r].pc = "login"
  /\ sessions' = sessions \cup {reqs[r].uid}
  /\ reqs' = [reqs EXCEPT ![r] =
                [Respond(reqs[r], 201, <<>>) EXCEPT !.did = @ \cup {"session"}]]
  /\ UNCHANGED <<userContext, predictions, calc, now, users, expenses,
                 savings, goals, achievements, nextId, goalView, hist,
                 budget>>

(* POST /api/auth/login with a body without password: the first handler of
   the route is the one of auth.ts; passport.authenticate("local", ..)
   finds no credentials, the callback gets no user: 401 *)
LoginMissingCredentials(r) ==
  /\ FreeSlot(r)
  /\ budget.logins > 0
  /\ reqs' = [reqs EXCEPT ![r] =
                IF AuthRouteOrder[1] = "validator"
                  THEN RespondValidationError(
                         [Idle EXCEPT !.kind = "login",
                                      !.body = [username |-> "demo",
                                                password |-> "missing"]],
                         {"password"})
                  ELSE [Idle EXCEPT !.kind = "login", !.pc = "done",
                                    !.status = 401,
                                    !.body = [username |-> "demo",
                                              password |-> "missing"]]]
  /\ budget' = [budget EXCEPT !.logins = @ - 1]
  /\ UNCHANGED <<userContext, sessions, predictions, calc, now, users,
                 expenses, savings, goals, achievements, nextId, goalView,
                 hist>>

----------------------------------------------------------------------------
(* The expense classification (server/ai.ts) *)

PaisePerRupee == 100

(* expenseStatusEnum *)
Tiers == {"necessary", "avoidable", "unnecessary"}

(* validCategories *)
Categories ==
  {"food_and_drinks", "groceries", "shopping", "entertainment",
   "transportation", "health", "utilities", "housing", "education",
   "travel", "personal_care", "gifts", "investment", "bills", "other"}

(* the keyword patterns of fallbackCategorization, in the order they are
   tried *)
CategoryOrder ==
  <<"food_and_drinks", "groceries", "shopping", "entertainment",
    "transportation", "health", "utilities", "housing", "education",
    "travel", "personal_care", "gifts", "investment", "bills">>

(* the outcome of openai.chat.completions.create: the text of the reply, or
   ServiceError when the call rejects (no connection, timeout, no key) *)
ServiceError == "<error>"

(* An expense name is modelled by the set of the keyword patterns its text
   matches: "Movie Tickets" matches the entertainment pattern (movie) and
   the travel pattern (ticket).  fallbackCategorization returns the label
   of the first pattern that matches, other when none does. *)
fallbackCategorization(matches) ==
  IF \E i \in 1..Len(CategoryOrder) : CategoryOrder[i] \in matches
    THEN CategoryOrder[CHOOSE i \in 1..Len(CategoryOrder) :
                         /\ CategoryOrder[i] \in matches
                         /\ \A j \in 1..(i - 1) : CategoryOrder[j] \notin matches]
    ELSE "other"

(* categorizeExpense: the reply (trimmed, in lower case) when it is one of
   validCategories, the fallback when it is not or when the call threw *)
categorizeExpenseUnchecked(matches, reply) ==
  IF reply = ServiceError THEN fallbackCategorization(matches) ELSE reply

categorizeExpense(matches, reply) ==
  IF reply # ServiceError /\ reply \in Categories
    THEN reply
    ELSE fallbackCategorization(matches)

necessaryCategories ==
  {"groceries", "utilities", "housing", "health", "transportation", "bills",
   "education"}
potentiallyAvoidableCategories == {"food_and_drinks", "personal_care", "investment"}
unnecessaryCategories == {"entertainment", "shopping", "travel", "gifts"}

NecessaryRupees == 5000
PotentiallyAvoidableRupees == 1000
UnnecessaryRupees == 2000
OtherRupees == 3000

(* amountInRupees = amount / 100; amountInRupees > n, on integers of paise:
   amount > n * 100 *)
fallbackStatusDeterminationNotStrict(category, amount) ==
  IF category \in necessaryCategories
    THEN IF amount >= NecessaryRupees * PaisePerRupee THEN "avoidable" ELSE "necessary"
  ELSE IF category \in potentiallyAvoidableCategories
    THEN IF amount >= PotentiallyAvoidableRupees * PaisePerRupee
           THEN "avoidable" ELSE "necessary"
  ELSE IF category \in unnecessaryCategories
    THEN IF amount >= UnnecessaryRupees * PaisePerRupee
           THEN "unnecessary" ELSE "avoidable"
  ELSE IF amount >= OtherRupees * PaisePerRupee THEN "unnecessary" ELSE "avoidable"

fallbackStatusDetermination(category, amount) ==
  IF category \in necessaryCategories
    THEN IF amount > NecessaryRupees * PaisePerRupee THEN "avoidable" ELSE "necessary"
  ELSE IF category \in potentiallyAvoidableCategories
    THEN IF amount > PotentiallyAvoidableRupees * PaisePerRupee
           THEN "avoidable" ELSE "necessary"
  ELSE IF category \in unnecessaryCategories
    THEN IF amount > UnnecessaryRupees * PaisePerRupee
           THEN "unnecessary" ELSE "avoidable"
  ELSE IF amount > OtherRupees * PaisePerRupee THEN "unnecessary" ELSE "avoidable"

(* determineExpenseStatus: the reply when it is one of the enum values, the
   fallback when it is not or when the call threw *)
determineExpenseStatus(category, amount, reply) ==
  IF reply # ServiceError /\ reply \in Tiers
    THEN reply
    ELSE fallbackStatusDetermination(category, amount)

(* fallbackStatusDetermination(category, amount) is called *)
FallbackStatusCall ==
  /\ calc.fn = "fallbackStatusDetermination"
  /\ calc.result = ""
  /\ calc' = [calc EXCEPT !.result =
                 fallbackStatusDetermination(calc.category, calc.amount)]
  /\ UNCHANGED <<userContext, sessions, predictions, now, users, expenses,
                 savings, goals, achievements, nextId, goalView, reqs, hist,
                 budget>>

----------------------------------------------------------------------------
(* POST /api/expenses *)

(* today.setHours(0, 0, 0, 0) *)
StartOfDay(t) == t - (t % HoursPerDay)

getExpensesByDateRange(userId, startDate, endDate) ==
  {e \in expenses : e.userId = userId /\ e.date >= startDate /\ e.date <= endDate}

(* A request body.  name is <<>> when the body has no name and <<matches>>
   otherwise; category and status are "" when the field is
   omitted; flaws is the set of the other fields whose value the schema
   rejects (an amount that is not an integer, a payment mode outside the
   enum, a date that is no date, a required field that is missing): the
   amount of the model stands for the number the body carries.
   The dates the form can send: the current time, or the same time the day
   before. *)
ExpenseBodies ==
  {[date |-> d, flaws |-> f, name |-> <<{}>>, category |-> "other",
    status |-> "necessary", amount |-> 1] :
     d \in {now, now - HoursPerDay}, f \in {{}, {"amount"}}}

ExpenseStart(r) ==
  /\ \E u \in DOMAIN users, body \in ExpenseBodies :
       Deserialize(r, u, "expense", 0, body, 0)
  /\ UNCHANGED <<userContext, sessions, predictions, calc, now, users,
                 expenses, savings, goals, achievements, nextId, goalView,
                 hist>>

(* the bodies that leave the category and / or the status to the server *)
AutoFillNames == {<<>>, <<{}>>, <<{"entertainment", "travel"}>>}
AutoFillAmounts == {0, 250000}

AutoFillBodies ==
  {[date |-> now, flaws |-> {}, name |-> n, category |-> c, status |-> st,
    amount |-> a] :
     n \in AutoFillNames, c \in {"", "entertainment"}, st \in {"", "necessary"},
     a \in AutoFillAmounts}

ExpenseStartAutoFill(r) ==
  /\ \E u \in DOMAIN users, body \in AutoFillBodies :
       Deserialize(r, u, "expense", 0, body, 0)
  /\ UNCHANGED <<userContext, sessions, predictions, calc, now, users,
                 expenses, savings, goals, achievements, nextId, goalView,
                 hist>>

(* bodies that fail insertExpenseSchema, one for every way the schema can
   reject them, next to one that passes: no name, a tier outside the enum,
   no tier and no name to derive one from, an amount that is not an
   integer, a payment mode outside the enum, a date that is no date *)
ExpenseStartFlawed(r) ==
  /\ \E u \in DOMAIN users,
        body \in
          {[date |-> now, flaws |-> f, name |-> n, category |-> "other",
            status |-> st, amount |-> 1] :
             f \in {{}}, n \in {<<>>, <<{}>>},
             st \in {"necessary", "luxury", ""}}
          \cup
          {[date |-> now, flaws |-> f, name |-> <<{}>>, category |-> "other",
            status |-> "necessary", amount |-> 1] :
             f \in {{"amount"}, {"paymentMode"}, {"date"},
                    {"amount", "date"}}} :
       Deserialize(r, u, "expense", 0, body, 0)
  /\ UNCHANGED <<userContext, sessions, predictions, calc, now, users,
                 expenses, savings, goals, achievements, nextId, goalView,
                 hist>>

(* bodies that pass insertExpenseSchema: amount is an integer column, and
   the schema has no bound on it *)
ExpenseStartAmount(r) ==
  /\ \E u \in DOMAIN users, a \in {-5, 0, 1} :
       Deserialize(r, u, "expense", 0,
                   [date |-> now, flaws |-> {}, name |-> <<{}>>,
                    category |-> "other", status |-> "necessary",
                    amount |-> a], 0)
  /\ UNCHANGED <<userContext, sessions, predictions, calc, now, users,
                 expenses, savings, goals, achievements, nextId, goalView,
                 hist>>

(* the replies of the service: a valid label, an unexpected text, no text,
   an error *)
CategoryReplies == {"travel", "cinema", "", ServiceError}
StatusReplies == {"unnecessary", "maybe", "", ServiceError}

(* insertExpenseSchema.parse(reqBody): the paths of the issues of the
   ZodError it throws, none when the body parses.  name, category and
   status are required; status is one of expenseStatusEnum. *)
insertExpenseSchemaIssuesFlawsUnchecked(b, category, status) ==
  (IF Len(b.name) = 0 THEN {"name"} ELSE {})
    \cup (IF category = "" THEN {"category"} ELSE {})
    \cup (IF status \notin Tiers THEN {"status"} ELSE {})

insertExpenseSchemaIssues(b, category, status) ==
  b.flaws \cup (IF Len(b.name) = 0 THEN {"name"} ELSE {})
          \cup (IF category = "" THEN {"category"} ELSE {})
          \cup (IF status \notin Tiers THEN {"status"} ELSE {})

(* insertExpenseSchema.parse(reqBody); storage.createExpense(expenseData) *)
(* The two awaited calls of the service come before the handler touches
   the storage, so they are part of this step: the step is taken once for
   every pair of replies.
     if (!reqBody.category && reqBody.name) reqBody.category = categorizeExpense(..)
     if (!reqBody.status && reqBody.name && reqBody.category && reqBody.amount)
       reqBody.status = determineExpenseStatus(..) *)
ExpenseCreate(r) ==
  /\ reqs[r].kind = "expense"
  /\ reqs[r].pc = "handler"
  /\ \E categoryReply \in CategoryReplies, statusReply \in StatusReplies :
       LET q == reqs[r]
           b == q.body
           askCategory == b.category = "" /\ Len(b.name) > 0
           category == IF askCategory
                         THEN categorizeExpense(b.name[1], categoryReply)
                         ELSE b.category
           askStatus == /\ b.status = "" /\ Len(b.name) > 0
                        /\ category # "" /\ b.amount # 0
           status == IF askStatus
                       THEN determineExpenseStatus(category, b.amount, statusReply)
                       ELSE b.status
           asked == [q EXCEPT !.categoryReply = IF askCategory THEN categoryReply ELSE "",
                              !.statusReply = IF askStatus THEN statusReply ELSE "",
                              !.aiCalls = (IF askCategory THEN 1 ELSE 0)
                                          + (IF askStatus THEN 1 ELSE 0)]
           issues == insertExpenseSchemaIssues(b, category, status)
       IN IF issues = {}
            THEN /\ expenses' = expenses \cup
                      {[id |-> nextId.expense, userId |-> q.uid, date |-> b.date,
                        amount |-> b.amount, status |-> status,
                        category |-> category]}
                 /\ nextId' = [nextId EXCEPT !.expense = @ + 1]
                 /\ hist' = [hist EXCEPT !.loggedDays[q.uid] = @ \cup {StartOfDay(now)}]
                 /\ reqs' = [reqs EXCEPT ![r] =
                               [asked EXCEPT !.pc = "count", !.rowId = nextId.expense,
                                             !.did = @ \cup {"expense"},
                                             !.firstOfDay =
                                               StartOfDay(now) \notin hist.loggedDays[q.uid]]]
            ELSE /\ reqs' = [reqs EXCEPT ![r] = RespondValidationError(asked, issues)]
                 /\ UNCHANGED <<expenses, nextId, hist>>
  /\ UNCHANGED <<userContext, sessions, predictions, calc, now, users,
                 savings, goals, achievements, goalView, budget>>

(* todayExpenses = getExpensesByDateRange(user.id, today, tomorrow);
   if (todayExpenses.length === 1) *)
ExpenseCount(r) ==
  /\ reqs[r].kind = "expense"
  /\ reqs[r].pc = "count"
  /\ LET q == reqs[r]
         today == StartOfDay(now)
         tomorrow == today + HoursPerDay
         todayExpenses == getExpensesByDateRange(q.uid, today, tomorrow)
     IN reqs' = [reqs EXCEPT ![r] =
                   IF Cardinality(todayExpenses) = 1
                     THEN [q EXCEPT !.pc = "award", !.coinsAwarded = FirstExpenseCoins]
                     ELSE Respond(q, 201, <<>>)]
  /\ UNCHANGED <<userContext, sessions, predictions, calc, now, users,
                 expenses, savings, goals, achievements, nextId, goalView,
                 hist, budget>>

(* storage.updateUser(user.id, {coins: (user.coins || 0) + coinsAwarded}) *)
ExpenseAward(r) ==
  /\ reqs[r].kind = "expense"
  /\ reqs[r].pc = "award"
  /\ LET q == reqs[r]
         updated == updateUser(q.uid, [coins |-> q.user.coins + q.coinsAwarded])
     IN /\ users' = updated
        /\ hist' = [hist EXCEPT
                      !.awarded[q.uid] = @ + q.coinsAwarded,
                      !.expenseAwards[q.uid] =
                         [d \in DOMAIN @ \cup {StartOfDay(now)} |->
                            (IF d \in DOMAIN @ THEN @[d] ELSE 0)
                            + (IF d = StartOfDay(now) THEN 1 ELSE 0)]]
        /\ reqs' = [reqs EXCEPT ![r] = [q EXCEPT !.pc = "reread",
                                                 !.pre = users[q.uid],
                                                 !.post = updated[q.uid],
                                                 !.did = @ \cup {"coins"}]]
  /\ UNCHANGED <<userContext, sessions, predictions, calc, now, expenses,
                 savings, goals, achievements, nextId, goalView, budget>>

(* updatedUser = storage.getUser(user.id); res.status(201).json(..) *)
ExpenseRespond(r) ==
  /\ reqs[r].kind = "expense"
  /\ reqs[r].pc = "reread"
  /\ reqs' = [reqs EXCEPT ![r] = Respond(reqs[r], 201, <<reqs[r].coinsAwarded>>)]
  /\ UNCHANGED <<userContext, sessions, predictions, calc, now, users,
                 expenses, savings, goals, achievements, nextId, goalView,
                 hist, budget>>

----------------------------------------------------------------------------
(* POST /api/savings *)

SavingBodies ==
  {[amount |-> a, source |-> src, flaws |-> f] :
     a \in {1}, src \in {"piggy_bank", "goal_allocation"}, f \in {{}, {"amount"}}}

SavingStart(r) ==
  /\ \E u \in DOMAIN users, body \in SavingBodies :
       Deserialize(r, u, "saving", 0, body, 0)
  /\ UNCHANGED <<userContext, sessions, predictions, calc, now, users,
                 expenses, savings, goals, achievements, nextId, goalView,
                 hist>>

(* bodies that fail insertSavingsSchema, next to one that passes *)
SavingStartFlawed(r) ==
  /\ \E u \in DOMAIN users,
        body \in
          {[amount |-> 1, source |-> "piggy_bank", flaws |-> f] :
             f \in {{}, {"amount"}, {"date"}}}
          \cup {[amount |-> 1, source |-> "", flaws |-> {"source"}]} :
       Deserialize(r, u, "saving", 0, body, 0)
  /\ UNCHANGED <<userContext, sessions, predictions, calc, now, users,
                 expenses, savings, goals, achievements, nextId, goalView,
                 hist>>

(* insertSavingsSchema.parse(..); storage.createSaving(savingData) *)
SavingCreate(r) ==
  /\ reqs[r].kind = "saving"
  /\ reqs[r].pc = "handler"
  /\ LET q == reqs[r] IN
       IF q.body.flaws = {}
         THEN /\ savings' = savings \cup
                   {[id |-> nextId.saving, userId |-> q.uid,
                     amount |-> IF q.body.source = "goal_allocation"
                                  THEN 0 - q.body.amount ELSE q.body.amount,
                     source |-> q.body.source]}
              /\ nextId' = [nextId EXCEPT !.saving = @ + 1]
              /\ reqs' = [reqs EXCEPT ![r] =
                            IF q.body.source = "piggy_bank"
                              THEN [q EXCEPT !.pc = "award", !.rowId = nextId.saving,
                                             !.coinsAwarded = PiggyBankCoins,
                                             !.did = @ \cup {"saving"}]
                              ELSE [Respond(q, 201, <<>>) EXCEPT
                                      !.rowId = nextId.saving,
                                      !.did = @ \cup {"saving"}]]
         ELSE /\ reqs' = [reqs EXCEPT ![r] =
                            RespondValidationError(q, q.body.flaws)]
              /\ UNCHANGED <<savings, nextId>>
  /\ UNCHANGED <<userContext, sessions, predictions, calc, now, users,
                 expenses, goals, achievements, goalView, hist, budget>>

(* updatedUser = storage.updateUser(user.id, {coins: (user.coins || 0) + 5});
   res.status(201).json(..) *)
SavingAward(r) ==
  /\ reqs[r].kind = "saving"
  /\ reqs[r].pc = "award"
  /\ LET q == reqs[r]
         updated == updateUser(q.uid, [coins |-> q.user.coins + PiggyBankCoins])
     IN /\ users' = updated
        /\ hist' = [hist EXCEPT !.awarded[q.uid] = @ + PiggyBankCoins]
        /\ reqs' = [reqs EXCEPT ![r] =
                      [Respond(q, 201, <<PiggyBankCoins>>) EXCEPT
                         !.pre = users[q.uid], !.post = updated[q.uid],
                         !.did = @ \cup {"coins"}]]
  /\ UNCHANGED <<userContext, sessions, predictions, calc, now, expenses,
                 savings, goals, achievements, nextId, goalView, budget>>

----------------------------------------------------------------------------
(* PUT and DELETE /api/expenses/:id, DELETE /api/savings/:id *)

(* the users that send requests with an :id, and the ids they send: 1 is a
   row of user 1, 2 a row of user 2, 3 is no row *)
Requesters == {2}
TargetIds == {1, 2, 3}

getExpenseById(id) == {e \in expenses : e.id = id}

(* storage.getGoalById(id): the row, if there is one *)
getGoalById(id) == IF id \in DOMAIN goals THEN {goals[id]} ELSE {}

(* storage.getSavings(user.id).find(s => s.id === savingId) *)
findSaving(userId, id) == {sv \in savings : sv.userId = userId /\ sv.id = id}

(* schemaKeys: the keys of insertExpenseSchema.shape without userId, as far
   as the rows of the model have them *)
schemaKeys == {"date", "amount", "status", "category"}

(* filteredBody: the entries of the body whose key is in schemaKeys *)
filteredBody(body) == [k \in DOMAIN body \cap schemaKeys |-> body[k]]

(* storage.updateExpense(id, data): UPDATE expenses SET data WHERE id *)
updateExpense(id, data) ==
  {IF e.id = id
     THEN [f \in DOMAIN e |-> IF f \in DOMAIN data THEN data[f] ELSE e[f]]
     ELSE e : e \in expenses}

(* the edit form of an expense; the body may also name userId *)
ExpensePutBodies == {[amount |-> 5, userId |-> 2]}

ExpensePutStart(r) ==
  /\ \E u \in Requesters, id \in TargetIds, body \in ExpensePutBodies :
       Deserialize(r, u, "expensePut", id, body, 0)
  /\ UNCHANGED <<userContext, sessions, predictions, calc, now, users,
                 expenses, savings, goals, achievements, nextId, goalView,
                 hist>>

(* expense = storage.getExpenseById(expenseId); ownership *)
ExpensePutRead(r) ==
  /\ reqs[r].kind = "expensePut"
  /\ reqs[r].pc = "handler"
  /\ LET q == reqs[r]
         expense == getExpenseById(q.goalId)
     IN reqs' = [reqs EXCEPT ![r] =
                   IF NotOwned(expense, q.uid)
                     THEN RespondNotFound(q, expense, "Expense not found")
                     ELSE [q EXCEPT !.pc = "update", !.cause = "own"]]
  /\ UNCHANGED <<userContext, sessions, predictions, calc, now, users,
                 expenses, savings, goals, achievements, nextId, goalView,
                 hist, budget>>

(* a PUT by a user for one of the expenses there are, with the edit form of
   an expense or what else a PUT can carry: an amount of 0 or below, a tier
   outside the enum, another date *)
ExpenseEditStart(r) ==
  /\ \E u \in DOMAIN users, e \in expenses,
        body \in {[amount |-> 0], [amount |-> -5], [status |-> "luxury"],
                  [date |-> now - HoursPerDay]} :
       Deserialize(r, u, "expensePut", e.id, body, 0)
  /\ UNCHANGED <<userContext, sessions, predictions, calc, now, users,
                 expenses, savings, goals, achievements, nextId, goalView,
                 hist>>

(* a DELETE by a user for one of the expenses there are *)
ExpenseDeleteStart(r) ==
  /\ \E u \in DOMAIN users, e \in expenses :
       Deserialize(r, u, "expenseDelete", e.id, NoBody, 0)
  /\ UNCHANGED <<userContext, sessions, predictions, calc, now, users,
                 expenses, savings, goals, achievements, nextId, goalView,
                 hist>>

(* updatedExpense = storage.updateExpense(expenseId, filteredBody); the
   body is not parsed: the status column is of the type expense_status, so
   the UPDATE with any other status is rejected by the database, the
   promise rejects and handleZodError answers 500 *)
ExpensePutUpdate(r) ==
  /\ reqs[r].kind = "expensePut"
  /\ reqs[r].pc = "update"
  /\ LET q == reqs[r]
         data == filteredBody(q.body)
     IN
       IF "status" \in DOMAIN data /\ data.status \notin Tiers
         THEN /\ reqs' = [reqs EXCEPT ![r] = Respond(q, 500, <<>>)]
              /\ UNCHANGED expenses
         ELSE /\ expenses' = updateExpense(q.goalId, data)
              /\ reqs' = [reqs EXCEPT ![r] =
                            [Respond(q, 200, <<>>) EXCEPT !.did = @ \cup {"expense"}]]
  /\ UNCHANGED <<userContext, sessions, predictions, calc, now, users,
                 savings, goals, achievements, nextId, goalView, hist,
                 budget>>

(* DELETE /api/expenses/:id, /api/savings/:id, /api/goals/:id *)
DeleteStart(r) ==
  /\ \E u \in Requesters, id \in TargetIds,
        kind \in {"expenseDelete", "savingDelete", "goalDelete"} :
       Deserialize(r, u, kind, id, NoBody, 0)
  /\ UNCHANGED <<userContext, sessions, predictions, calc, now, users,
                 expenses, savings, goals, achievements, nextId, goalView,
                 hist>>

(* the lookup of the row and the ownership check of the three handlers *)
DeleteRead(r) ==
  /\ reqs[r].kind \in {"expenseDelete", "savingDelete", "goalDelete"}
  /\ reqs[r].pc = "handler"
  /\ LET q == reqs[r]
         rows == CASE q.kind = "expenseDelete" -> getExpenseById(q.goalId)
                   [] q.kind = "savingDelete" -> findSaving(q.uid, q.goalId)
                   [] q.kind = "goalDelete" -> getGoalById(q.goalId)
         found == CASE q.kind = "expenseDelete" -> ~NotOwned(rows, q.uid)
                    [] q.kind = "savingDelete" -> rows # {}
                    [] q.kind = "goalDelete" -> ~NotOwned(rows, q.uid)
         message == CASE q.kind = "expenseDelete" -> "Expense not found"
                      [] q.kind = "savingDelete" -> "Saving not found"
                      [] q.kind = "goalDelete" -> "Goal not found"
         (* the saving handler looks among the user's own savings: whether
            the id is another user's row or no row is not in what it read *)
         known == IF q.kind = "savingDelete"
                    THEN {sv \in savings : sv.id = q.goalId}
                    ELSE rows
     IN reqs' = [reqs EXCEPT ![r] =
                   IF found THEN [q EXCEPT !.pc = "delete", !.cause = "own"]
                            ELSE RespondNotFound(q, known, message)]
  /\ UNCHANGED <<userContext, sessions, predictions, calc, now, users,
                 expenses, savings, goals, achievements, nextId, goalView,
                 hist, budget>>

(* storage.deleteExpense / deleteSaving / deleteGoal (id); 200 *)
DeleteRow(r) ==
  /\ reqs[r].kind \in {"expenseDelete", "savingDelete", "goalDelete"}
  /\ reqs[r].pc = "delete"
  /\ LET q == reqs[r] IN
       /\ expenses' = IF q.kind = "expenseDelete"
                        THEN {e \in expenses : e.id # q.goalId} ELSE expenses
       /\ savings' = IF q.kind = "savingDelete"
                       THEN {sv \in savings : sv.id # q.goalId} ELSE savings
       /\ goals' = IF q.kind = "goalDelete"
                     THEN [g \in DOMAIN goals \ {q.goalId} |-> goals[g]] ELSE goals
       /\ reqs' = [reqs EXCEPT ![r] =
                     [Respond(q, 200, <<>>) EXCEPT !.did = @ \cup {"delete"}]]
  /\ UNCHANGED <<userContext, sessions, predictions, calc, now, users,
                 achievements, nextId, goalView, hist, budget>>

----------------------------------------------------------------------------
(* PUT /api/goals/:id, and the client's goal card that sends it *)

(* handleMarkComplete *)
MarkCompleteBody(goal) ==
  [completed |-> TRUE, currentAmount |-> goal.targetAmount]

(* handleAllocationConfirm *)
AllocationBody(goal, amountInPaise) ==
  LET newTotal == goal.currentAmount + amountInPaise
      willComplete == newTotal >= goal.targetAmount
  IN [currentAmount |-> newTotal, completed |-> willComplete]

(* the amounts the allocation dialog accepts *)
AllocationAmounts == {1, 2}

(* the goal card shows both buttons while the goal it was rendered with is
   not completed *)
GoalBodies(goal) ==
  IF goal.completed THEN {}
  ELSE {MarkCompleteBody(goal)} \cup {AllocationBody(goal, a) : a \in AllocationAmounts}

(* storage.updateGoal(id, data): UPDATE goals SET data WHERE id *)
updateGoal(id, data) ==
  [goals EXCEPT ![id] = [f \in DOMAIN @ |-> IF f \in DOMAIN data THEN data[f] ELSE @[f]]]

(* GET /api/goals after invalidateQueries: the goal cards are rendered anew *)
FetchGoals ==
  /\ goalView # goals
  /\ goalView' = goals
  /\ UNCHANGED <<userContext, sessions, predictions, calc, now, users,
                 expenses, savings, goals, achievements, nextId, reqs, hist,
                 budget>>

GoalPutStart(r) ==
  /\ \E g \in DOMAIN goalView :
       \/ /\ MarkCompleteBody(goalView[g]) \in GoalBodies(goalView[g])
          /\ Deserialize(r, goalView[g].userId, "goal", g,
                         MarkCompleteBody(goalView[g]), 0)
       \/ \E a \in AllocationAmounts :
            /\ AllocationBody(goalView[g], a) \in GoalBodies(goalView[g])
            /\ Deserialize(r, goalView[g].userId, "goal", g,
                           AllocationBody(goalView[g], a), a)
  /\ UNCHANGED <<userContext, sessions, predictions, calc, now, users,
                 expenses, savings, goals, achievements, nextId, goalView,
                 hist>>

(* goal = storage.getGoalById(goalId); ownership; completed status changing *)
GoalPutRead(r) ==
  /\ reqs[r].kind = "goal"
  /\ reqs[r].pc = "handler"
  /\ LET q == reqs[r] IN
       reqs' = [reqs EXCEPT ![r] =
         IF NotOwned(getGoalById(q.goalId), q.uid)
           THEN RespondNotFound(q, getGoalById(q.goalId), "Goal not found")
           ELSE IF "completed" \in DOMAIN q.body /\ q.body.completed = TRUE
                   /\ ~goals[q.goalId].completed
             THEN [q EXCEPT !.pc = "award", !.goal = goals[q.goalId],
                            !.coinsAwarded = GoalCoins, !.cause = "own"]
             ELSE [q EXCEPT !.pc = "update", !.goal = goals[q.goalId],
                            !.cause = "own"]]
  /\ UNCHANGED <<userContext, sessions, predictions, calc, now, users,
                 expenses, savings, goals, achievements, nextId, goalView,
                 hist, budget>>

(* storage.updateUser(user.id, {coins: (user.coins || 0) + coinsAwarded}) *)
GoalPutAward(r) ==
  /\ reqs[r].kind = "goal"
  /\ reqs[r].pc = "award"
  /\ LET q == reqs[r]
         updated == updateUser(q.uid, [coins |-> q.user.coins + q.coinsAwarded])
     IN /\ users' = updated
        /\ hist' = [hist EXCEPT !.awarded[q.uid] = @ + q.coinsAwarded,
                                !.goalAwards[q.goalId] = @ + 1]
        /\ reqs' = [reqs EXCEPT ![r] = [q EXCEPT !.pc = "achievement",
                                                 !.pre = users[q.uid],
                                                 !.post = updated[q.uid],
                                                 !.did = @ \cup {"coins"}]]
  /\ UNCHANGED <<userContext, sessions, predictions, calc, now, expenses,
                 savings, goals, achievements, nextId, goalView, budget>>

(* storage.createAchievement({type: "goal_met", ..}) *)
GoalPutAchievement(r) ==
  /\ reqs[r].kind = "goal"
  /\ reqs[r].pc = "achievement"
  /\ LET q == reqs[r] IN
       /\ achievements' = achievements \cup
            {[id |-> nextId.achievement, userId |-> q.uid, type |-> "goal_met",
              name |-> q.goal.name, coinsAwarded |-> q.coinsAwarded]}
       /\ nextId' = [nextId EXCEPT !.achievement = @ + 1]
       /\ reqs' = [reqs EXCEPT ![r] = [q EXCEPT !.pc = "update",
                                                !.did = @ \cup {"achievement"}]]
  /\ UNCHANGED <<userContext, sessions, predictions, calc, now, users,
                 expenses, savings, goals, goalView, hist, budget>>

(* updatedGoal = storage.updateGoal(goalId, req.body) *)
GoalPutUpdate(r) ==
  /\ reqs[r].kind = "goal"
  /\ reqs[r].pc = "update"
  /\ LET q == reqs[r]
         w == [q EXCEPT !.did = @ \cup {"goal"}]
     IN
       /\ goals' = IF q.goalId \in DOMAIN goals THEN updateGoal(q.goalId, q.body)
                                              ELSE goals
       /\ hist' = IF q.goalId \notin DOMAIN goals THEN hist
                  ELSE IF q.amountInPaise > 0
                    THEN [hist EXCEPT !.allocated[q.goalId] = @ + q.amountInPaise]
                  ELSE IF "completed" \in DOMAIN q.body /\ q.body.completed
                    THEN [hist EXCEPT !.marked[q.goalId] = @ + 1]
                    ELSE hist
       /\ reqs' = [reqs EXCEPT ![r] =
                     IF q.coinsAwarded > 0 THEN [w EXCEPT !.pc = "reread"]
                                           ELSE Respond(w, 200, <<>>)]
  /\ UNCHANGED <<userContext, sessions, predictions, calc, now, users,
                 expenses, savings, achievements, nextId, goalView, budget>>

(* updatedUser = storage.getUser(user.id); res.status(200).json(..) *)
GoalPutRespond(r) ==
  /\ reqs[r].kind = "goal"
  /\ reqs[r].pc = "reread"
  /\ reqs' = [reqs EXCEPT ![r] = Respond(reqs[r], 200, <<reqs[r].coinsAwarded>>)]
  /\ UNCHANGED <<userContext, sessions, predictions, calc, now, users,
                 expenses, savings, goals, achievements, nextId, goalView,
                 hist, budget>>

(* a PUT sent with any id, not from a goal card: by a user to a goal of
   another user or to an id that is not there *)
GoalPutStartById(r) ==
  /\ \E u \in Requesters, id \in TargetIds :
       Deserialize(r, u, "goal", id,
                   [completed |-> TRUE, currentAmount |-> GoalTarget], 0)
  /\ UNCHANGED <<userContext, sessions, predictions, calc, now, users,
                 expenses, savings, goals, achievements, nextId, goalView,
                 hist>>

(* a PUT whose body names the owner column: req.body goes to updateGoal as
   it is *)
GoalPutStartUserId(r) ==
  /\ \E u \in Requesters, id \in TargetIds, owner \in DOMAIN users :
       Deserialize(r, u, "goal", id, [userId |-> owner], 0)
  /\ UNCHANGED <<userContext, sessions, predictions, calc, now, users,
                 expenses, savings, goals, achievements, nextId, goalView,
                 hist>>

(* an awaited storage call of the handler rejects: catch (error) {
   handleZodError(error, res) } answers 500 and the handler stops there *)
GoalPutFail(r) ==
  /\ reqs[r].kind = "goal"
  /\ reqs[r].pc \in {"handler", "award", "achievement", "update", "reread"}
  /\ reqs' = [reqs EXCEPT ![r] = Respond(reqs[r], 500, <<>>)]
  /\ UNCHANGED <<userContext, sessions, predictions, calc, now, users,
                 expenses, savings, goals, achievements, nextId, goalView,
                 hist, budget>>

(* handleAllocationConfirm, first request: the PUT with the new total *)
AllocationStart(r) ==
  /\ \E g \in DOMAIN goalView, a \in AllocationAmounts :
       /\ AllocationBody(goalView[g], a) \in GoalBodies(goalView[g])
       /\ Deserialize(r, goalView[g].userId, "goal", g,
                      AllocationBody(goalView[g], a), a)
  /\ UNCHANGED <<userContext, sessions, predictions, calc, now, users,
                 expenses, savings, goals, achievements, nextId, goalView,
                 hist>>

(* the PUT of an allocation has been answered 200 and the goal card has not
   yet sent the saving entry *)
AllocationPending(q) ==
  /\ q.kind = "goal"
  /\ q.pc = "done"
  /\ q.status = 200
  /\ q.amountInPaise > 0

(* handleAllocationConfirm, second request, after the PUT has resolved:
   POST /api/savings {amount: -amountInPaise, source: "goal_allocation"}.
   The body carries the size of the amount; SavingCreate stores it negated.
   willComplete is the card's local constant, kept for what the card does
   after this request. *)
AllocationSaving(r) ==
  /\ AllocationPending(reqs[r])
  /\ reqs' = [reqs EXCEPT ![r] =
                [Idle EXCEPT !.kind = "saving", !.pc = "handler",
                             !.uid = reqs[r].uid, !.user = users[reqs[r].uid],
                             !.goalId = reqs[r].goalId,
                             !.amountInPaise = reqs[r].amountInPaise,
                             !.body = [amount |-> reqs[r].amountInPaise,
                                       source |-> "goal_allocation",
                                       flaws |-> {},
                                       willComplete |-> reqs[r].body.completed]]]
  /\ UNCHANGED <<userContext, sessions, predictions, calc, now, users,
                 expenses, savings, goals, achievements, nextId, goalView,
                 hist, budget>>

(* an awaited storage call of POST /api/savings rejects: catch (error) {
   handleZodError(error, res) } answers 500 and the handler stops there *)
SavingFail(r) ==
  /\ reqs[r].kind = "saving"
  /\ reqs[r].pc \in {"handler", "award"}
  /\ reqs' = [reqs EXCEPT ![r] = Respond(reqs[r], 500, <<>>)]
  /\ UNCHANGED <<userContext, sessions, predictions, calc, now, users,
                 expenses, savings, goals, achievements, nextId, goalView,
                 hist, budget>>

(* the response has been handled by the goal card: the slot is free, unless
   the card still has the saving entry to send *)
AllocationFinish(r) ==
  /\ ~AllocationPending(reqs[r])
  /\ reqs[r].pc = "done"
  /\ reqs' = [reqs EXCEPT ![r] = Idle]
  /\ UNCHANGED <<userContext, sessions, predictions, calc, now, users,
                 expenses, savings, goals, achievements, nextId, goalView,
                 hist, budget>>

----------------------------------------------------------------------------
(* The client's user context (UserProvider) and what each form does with   *)
(* the response of its request                                             *)

(* the piggy bank form: POST /api/savings {amount, source: "piggy_bank"} *)
PiggyBankStart(r) ==
  /\ \E u \in DOMAIN users :
       Deserialize(r, u, "saving", 0,
                   [amount |-> 1, source |-> "piggy_bank", flaws |-> {}], 0)
  /\ UNCHANGED <<userContext, sessions, predictions, calc, now, users,
                 expenses, savings, goals, achievements, nextId, goalView,
                 hist>>

(* updateCoins(amount): setUser({...user, coins: user.coins + amount}) *)
updateCoins(u, amount) == [userContext EXCEPT ![u] = @ + amount]

(* the response reaches the form that sent the request; the coins of the
   user context after the form has handled the response q:
     login               setUser(userData), the row the server answered with
     add expense         the response is not read
     piggy bank          if (result.coinsAwarded) updateCoins(result.coinsAwarded)
     mark complete       updateCoins(100) after the PUT has resolved
     allocation          if (willComplete) updateCoins(100) after the PUT and
                         the POST of the saving entry have resolved *)
ClientHandleResponse(r) ==
  /\ reqs[r].pc = "done"
  /\ ~AllocationPending(reqs[r])
  /\ LET q == reqs[r] IN
       userContext' =
         IF q.kind = "login" /\ q.status = 200
           THEN [userContext EXCEPT ![q.uid] = q.post.coins]
         ELSE IF q.kind = "saving" /\ q.status = 201
                 /\ q.body.source = "piggy_bank"
                 /\ Len(q.respCoinsAwarded) > 0
           THEN updateCoins(q.uid, q.respCoinsAwarded[1])
         ELSE IF q.kind = "saving" /\ q.status = 201
                 /\ q.body.source = "goal_allocation" /\ q.body.willComplete
           THEN updateCoins(q.uid, GoalCoins)
         ELSE IF q.kind = "goal" /\ q.status = 200 /\ q.amountInPaise = 0
           THEN updateCoins(q.uid, GoalCoins)
         ELSE userContext
  /\ reqs' = [reqs EXCEPT ![r] = Idle]
  /\ UNCHANGED <<sessions, predictions, calc, now, users, expenses, savings,
                 goals, achievements, nextId, goalView, hist, budget>>

----------------------------------------------------------------------------
(* POST /api/goals *)

(* the body of AddGoalModal.onSubmit, and bodies that fail insertGoalSchema:
   no name, a target amount that is not an integer, a target date that is
   no date *)
GoalCreateStart(r) ==
  /\ \E u \in DOMAIN users,
        f \in {{}, {"name"}, {"targetAmount"}, {"targetDate"}} :
       Deserialize(r, u, "goalCreate", 0,
                   [name |-> "g", targetAmount |-> GoalTarget, flaws |-> f], 0)
  /\ UNCHANGED <<userContext, sessions, predictions, calc, now, users,
                 expenses, savings, goals, achievements, nextId, goalView,
                 hist>>

(* AddGoalModal.onSubmit with goalToEdit: PUT /api/goals/:id {name,
   targetAmount, targetDate, startDate}; the card has the Edit button
   whether or not the goal is completed.  The form sends a target amount
   below or above the target the goals start with. *)
GoalEditStart(r) ==
  /\ \E g \in DOMAIN goalView, t \in {1, GoalTarget + 1} :
       Deserialize(r, goalView[g].userId, "goal", g,
                   [name |-> goalView[g].name, targetAmount |-> t], 0)
  /\ UNCHANGED <<userContext, sessions, predictions, calc, now, users,
                 expenses, savings, goals, achievements, nextId, goalView,
                 hist>>

(* insertGoalSchema.parse({...req.body, userId}), whose issues are the
   flaws of the body; storage.createGoal(goalData), where currentAmount and
   completed are omitted from the schema and take the defaults of the
   columns, 0 and false; 201 *)
GoalCreate(r) ==
  /\ reqs[r].kind = "goalCreate"
  /\ reqs[r].pc = "handler"
  /\ LET q == reqs[r]
         id == nextId.goal
         issues == q.body.flaws
     IN IF issues = {}
          THEN /\ goals' =
                    [g \in DOMAIN goals \cup {id} |->
                       IF g = id
                         THEN [userId |-> q.uid, name |-> q.body.name,
                               targetAmount |-> q.body.targetAmount,
                               currentAmount |-> 0, completed |-> FALSE]
                         ELSE goals[g]]
               /\ nextId' = [nextId EXCEPT !.goal = @ + 1]
               /\ hist' = [hist EXCEPT
                             !.goalAwards = [g \in DOMAIN @ \cup {id} |->
                                               IF g = id THEN 0 ELSE @[g]],
                             !.allocated = [g \in DOMAIN @ \cup {id} |->
                                              IF g = id THEN 0 ELSE @[g]],
                             !.marked = [g \in DOMAIN @ \cup {id} |->
                                           IF g = id THEN 0 ELSE @[g]]]
               /\ reqs' = [reqs EXCEPT ![r] =
                             [Respond(q, 201, <<>>) EXCEPT !.rowId = id,
                                                           !.did = @ \cup {"goal"}]]
          ELSE /\ reqs' = [reqs EXCEPT ![r] = RespondValidationError(q, issues)]
               /\ UNCHANGED <<goals, nextId, hist>>
  /\ UNCHANGED <<userContext, sessions, predictions, calc, now, users,
                 expenses, savings, achievements, goalView, budget>>

----------------------------------------------------------------------------
(* The weekly savings target of the client (pages/Savings.tsx, lib/aiUtils) *)

DaysPerWeek == 7

(* hour 0 is Thursday 1 January 1970; counting Monday as 0, a Thursday is 3 *)
EpochWeekday == 3

(* startOfWeek(date, {weekStartsOn: 1}): the Monday 00:00 at or before *)
startOfWeek(t) ==
  StartOfDay(t) - (((t \div HoursPerDay) + EpochWeekday) % DaysPerWeek) * HoursPerDay

(* endOfWeek(date, {weekStartsOn: 1}): the last instant of the Sunday, on the
   clock of whole hours its last hour *)
endOfWeek(t) == startOfWeek(t) + DaysPerWeek * HoursPerDay - 1

RECURSIVE SumAmounts(_)
(* .reduce((sum, e) => sum + e.amount, 0) *)
SumAmounts(rows) ==
  IF rows = {} THEN 0
  ELSE LET e == CHOOSE x \in rows : TRUE
       IN e.amount + SumAmounts(rows \ {e})

(* Math.round(n * 0.5) on an integer n: halves go up *)
MathRoundHalfTruncated(n) == n \div 2

MathRoundHalf(n) == (n + 1) \div 2

WeeksShown == 6

(* generateWeeklyTargets: entry i is the week i weeks before the current one;
   the target of the current week is half of its avoidable and unnecessary
   spending, the target of a past week is all of it *)
generateWeeklyTargets(expensesData, t) ==
  [i \in 0..(WeeksShown - 1) |->
     LET weekEnd == t - i * DaysPerWeek * HoursPerDay
         weekStart == startOfWeek(weekEnd)
         weekEndDate == endOfWeek(weekEnd)
         weekExpenses == {e \in expensesData :
                            e.date >= weekStart /\ e.date <= weekEndDate}
         avoidableExpenses ==
           SumAmounts({e \in weekExpenses : e.status = "avoidable"})
         unnecessaryExpenses ==
           SumAmounts({e \in weekExpenses : e.status = "unnecessary"})
     IN [weekStart |-> weekStart, weekEnd |-> weekEndDate,
         target |-> IF i = 0
                      THEN MathRoundHalf(avoidableExpenses + unnecessaryExpenses)
                      ELSE avoidableExpenses + unnecessaryExpenses]]

(* calculateSavingsRecommendation(expenses) *)
calculateSavingsRecommendation(rows) ==
  LET avoidableTotal == SumAmounts({e \in rows : e.status = "avoidable"})
      unnecessaryTotal == SumAmounts({e \in rows : e.status = "unnecessary"})
  IN [weekly |-> MathRoundHalf(avoidableTotal + unnecessaryTotal),
      avoidableAmount |-> avoidableTotal,
      unnecessaryAmount |-> unnecessaryTotal]

(* GET /api/expenses: the expenses of the user *)
getExpenses(userId) == {e \in expenses : e.userId = userId}

(* the Savings page is rendered: weeklyTargets = generateWeeklyTargets() *)
SavingsPage ==
  /\ calc = NoCalc
  /\ \E u \in DOMAIN users :
       calc' = [fn |-> "generateWeeklyTargets", uid |-> u,
                result |-> generateWeeklyTargets(getExpenses(u), now)]
  /\ UNCHANGED <<userContext, sessions, predictions, now, users, expenses,
                 savings, goals, achievements, nextId, goalView, reqs, hist,
                 budget>>

(* the Expenses page is rendered with the filter This Week or All Time:
   savingsRecommendation = calculateSavingsRecommendation(expensesData.expenses) *)
ExpensesPage ==
  /\ calc = NoCalc
  /\ \E u \in DOMAIN users, thisWeek \in BOOLEAN :
       calc' = [fn |-> "calculateSavingsRecommendation", uid |-> u,
                thisWeek |-> thisWeek,
                result |-> calculateSavingsRecommendation(
                             IF thisWeek
                               THEN getExpensesByDateRange(u, startOfWeek(now),
                                                           endOfWeek(now))
                               ELSE getExpenses(u))]
  /\ UNCHANGED <<userContext, sessions, predictions, now, users, expenses,
                 savings, goals, achievements, nextId, goalView, reqs, hist,
                 budget>>

(* the page is left *)
LeavePage ==
  /\ calc # NoCalc
  /\ calc' = NoCalc
  /\ UNCHANGED <<userContext, sessions, predictions, now, users, expenses,
                 savings, goals, achievements, nextId, goalView, reqs, hist,
                 budget>>

----------------------------------------------------------------------------
(* GET /api/monthly-report: the breakdowns *)

(* the lengths of the months of 1970, the year of the model's clock *)
DaysInMonth == <<31, 28, 31, 30, 31, 30, 31, 31, 30, 31, 30, 31>>

RECURSIVE DaysBefore(_)
(* the days of the year before month m (0 = January) *)
DaysBefore(m) == IF m = 0 THEN 0 ELSE DaysInMonth[m] + DaysBefore(m - 1)

(* now.getMonth() *)
getMonth(t) ==
  CHOOSE m \in 0..11 :
    /\ DaysBefore(m) * HoursPerDay <= t
    /\ t < DaysBefore(m + 1) * HoursPerDay

(* new Date(targetYear, targetMonth, 1) *)
startOfMonth(m) == DaysBefore(m) * HoursPerDay

(* new Date(targetYear, targetMonth + 1, 0): the last day of the month, at
   00:00 *)
endOfMonth(m) == (DaysBefore(m + 1) - 1) * HoursPerDay

(* A JavaScript number that is the result of a division: finite with its
   value, or NaN (sign 0), Infinity (sign 1), -Infinity (sign -1).  The
   division is exact here; the rounding error of the doubles is not
   modelled. *)
Finite(n) == [finite |-> TRUE, value |-> n]
NotFinite(sign) == [finite |-> FALSE, value |-> sign]

(* Math.round((amount / totalExpenses) * 100) = floor(x + 0.5) *)
Percentage(amount, totalExpenses) ==
  IF totalExpenses = 0
    THEN NotFinite(IF amount = 0 THEN 0 ELSE IF amount > 0 THEN 1 ELSE -1)
  ELSE IF totalExpenses > 0
    THEN Finite((200 * amount + totalExpenses) \div (2 * totalExpenses))
    ELSE Finite((0 - 200 * amount - totalExpenses) \div (0 - 2 * totalExpenses))

(* the report of month m for user u: totalExpenses, categoryBreakdown,
   statusBreakdown and, when unnecessarySpending > 0, unnecessaryPercent *)
monthlyReport(u, m) ==
  LET monthExpenses == getExpensesByDateRange(u, startOfMonth(m), endOfMonth(m))
      totalExpenses == SumAmounts(monthExpenses)
      expensesByCategory ==
        [c \in {e.category : e \in monthExpenses} |->
           SumAmounts({e \in monthExpenses : e.category = c})]
      expensesByStatus ==
        [st \in {e.status : e \in monthExpenses} |->
           SumAmounts({e \in monthExpenses : e.status = st})]
      unnecessarySpending ==
        IF "unnecessary" \in DOMAIN expensesByStatus
          THEN expensesByStatus["unnecessary"] ELSE 0
  IN [totalExpenses |-> totalExpenses,
      categoryBreakdown |->
        [c \in DOMAIN expensesByCategory |->
           [amount |-> expensesByCategory[c],
            percentage |-> Percentage(expensesByCategory[c], totalExpenses)]],
      statusBreakdown |->
        [st \in DOMAIN expensesByStatus |->
           [amount |-> expensesByStatus[st],
            percentage |-> Percentage(expensesByStatus[st], totalExpenses)]],
      unnecessaryPercent |->
        IF unnecessarySpending > 0
          THEN <<Percentage(unnecessarySpending, totalExpenses)>>
          ELSE <<>>]

(* the handler, with the month of the clock as target month *)
MonthlyReport ==
  /\ calc = NoCalc
  /\ \E u \in DOMAIN users :
       calc' = [fn |-> "monthlyReport", uid |-> u, month |-> getMonth(now),
                result |-> monthlyReport(u, getMonth(now))]
  /\ UNCHANGED <<userContext, sessions, predictions, now, users, expenses,
                 savings, goals, achievements, nextId, goalView, reqs, hist,
                 budget>>

(* the handler with req.query.month: January, February, March *)
MonthlyReportOf ==
  /\ calc = NoCalc
  /\ \E u \in DOMAIN users, m \in {0, 1, 2} :
       calc' = [fn |-> "monthlyReport", uid |-> u, month |-> m,
                result |-> monthlyReport(u, m)]
  /\ UNCHANGED <<userContext, sessions, predictions, now, users, expenses,
                 savings, goals, achievements, nextId, goalView, reqs, hist,
                 budget>>

(* GET /api/dashboard/summary: the part of the summary that is computed
   from the expenses of the current month *)
DashboardSummary ==
  /\ calc = NoCalc
  /\ \E u \in DOMAIN users :
       LET currentMonthExpenses ==
             getExpensesByDateRange(u, startOfMonth(getMonth(now)),
                                    endOfMonth(getMonth(now)))
       IN calc' =
            [fn |-> "dashboardSummary", uid |-> u, month |-> getMonth(now),
             result |->
               [currentMonthExpenses |-> SumAmounts(currentMonthExpenses),
                avoidable |->
                  SumAmounts({e \in currentMonthExpenses :
                                e.status = "avoidable"}),
                unnecessary |->
                  SumAmounts({e \in currentMonthExpenses :
                                e.status = "unnecessary"})]]
  /\ UNCHANGED <<userContext, sessions, predictions, now, users, expenses,
                 savings, goals, achievements, nextId, goalView, reqs, hist,
                 budget>>

----------------------------------------------------------------------------
(* POST /api/predictions/generate *)

(* categoriesObj: category -> the sum of the amounts *)
categoriesObj(rows) ==
  [c \in {e.category : e \in rows} |-> SumAmounts({e \in rows : e.category = c})]

PredictStart(r) ==
  /\ \E u \in DOMAIN users : Deserialize(r, u, "predict", 0, NoBody, 0)
  /\ UNCHANGED <<userContext, sessions, predictions, calc, now, users,
                 expenses, savings, goals, achievements, nextId, goalView,
                 hist>>

(* expenses = storage.getExpenses(user.id); 400 when there are none; the
   average Math.round(totalAmount / expenses.length) = floor(x + 0.5), the
   category map, and the month key: nextMonth = new Date(year, month + 1,
   1), the key YYYY-MM of that month, as the number of the month counted
   from January of the clock's year (so 12 is the January after) *)
PredictRead(r) ==
  /\ reqs[r].kind = "predict"
  /\ reqs[r].pc = "handler"
  /\ LET q == reqs[r]
         rows == getExpenses(q.uid)
     IN reqs' = [reqs EXCEPT ![r] =
                   IF Cardinality(rows) = 0
                     THEN [Respond(q, 400, <<>>) EXCEPT
                             !.message = "Not enough expense data to generate prediction"]
                     ELSE [q EXCEPT !.pc = "lookup",
                                    !.avgAmount =
                                      (2 * SumAmounts(rows) + Cardinality(rows))
                                        \div (2 * Cardinality(rows)),
                                    !.categoriesObj = categoriesObj(rows),
                                    !.month = getMonth(now) + 1]]
  /\ UNCHANGED <<userContext, sessions, predictions, calc, now, users,
                 expenses, savings, goals, achievements, nextId, goalView,
                 hist, budget>>

(* existingPrediction = storage.getPredictionByMonth(user.id, month):
   result.find(..) gives the first row that matches, the one with the
   lowest id in insertion order *)
PredictLookup(r) ==
  /\ reqs[r].kind = "predict"
  /\ reqs[r].pc = "lookup"
  /\ LET found == {p \in predictions : /\ p.userId = reqs[r].uid
                                        /\ p.month = reqs[r].month}
     IN reqs' = [reqs EXCEPT ![r] =
                   [reqs[r] EXCEPT
                      !.pc = "write",
                      !.existingPrediction =
                        {p \in found : \A p2 \in found : p.id <= p2.id}]]
  /\ UNCHANGED <<userContext, sessions, predictions, calc, now, users,
                 expenses, savings, goals, achievements, nextId, goalView,
                 hist, budget>>

(* if (existingPrediction) storage.updatePrediction(..) else
   storage.createPrediction(..); 200 *)
PredictWrite(r) ==
  /\ reqs[r].kind = "predict"
  /\ reqs[r].pc = "write"
  /\ LET q == reqs[r] IN
       /\ IF q.existingPrediction # {}
            THEN /\ predictions' =
                      {IF p \in q.existingPrediction
                         THEN [p EXCEPT !.predictedAmount = q.avgAmount,
                                        !.categories = q.categoriesObj]
                         ELSE p : p \in predictions}
                 /\ UNCHANGED nextId
            ELSE /\ predictions' = predictions \cup
                      {[id |-> nextId.prediction, userId |-> q.uid, month |-> q.month,
                        predictedAmount |-> q.avgAmount,
                        categories |-> q.categoriesObj]}
                 /\ nextId' = [nextId EXCEPT !.prediction = @ + 1]
       /\ reqs' = [reqs EXCEPT ![r] =
                     [Respond(q, 200, <<>>) EXCEPT !.did = @ \cup {"prediction"}]]
  /\ UNCHANGED <<userContext, sessions, calc, now, users, expenses, savings,
                 goals, achievements, goalView, hist, budget>>

----------------------------------------------------------------------------
(* The environment *)

(* time passes; a request lasts far less than an hour, so the clock of
   whole hours moves only between requests *)
Tick ==
  /\ budget.ticks > 0
  /\ \A r \in Slots : reqs[r].pc \in {"idle", "done"}
  /\ \E d \in TickHours : now' = now + d
  /\ budget' = [budget EXCEPT !.ticks = @ - 1]
  /\ UNCHANGED <<userContext, sessions, predictions, calc, users, expenses,
                 savings, goals, achievements, nextId, goalView, reqs, hist>>

(* the response has been sent: the slot is free for the next request *)
Finish(r) ==
  /\ reqs[r].pc = "done"
  /\ reqs' = [reqs EXCEPT ![r] = Idle]
  /\ UNCHANGED <<userContext, sessions, predictions, calc, now, users,
                 expenses, savings, goals, achievements, nextId, goalView,
                 hist, budget>>

----------------------------------------------------------------------------
(* The login engine alone: one user, logins in sequence and in parallel *)

InitLogin ==
  /\ now = StartHour
  /\ \E s \in InitStreaks, l \in {NoLogin, StartHour} :
       users = [u \in {1} |-> [coins |-> 0, streak |-> s, lastLogin |-> l]]
  /\ expenses = {}
  /\ savings = {}
  /\ goals = << >>
  /\ achievements = {}
  /\ predictions = {}
  /\ sessions = {}
  /\ userContext = [u \in DOMAIN users |-> users[u].coins]
  /\ nextId = [expense |-> 1, saving |-> 1, goal |-> 1, achievement |-> 1,
               prediction |-> 1]
  /\ goalView = << >>
  /\ reqs = [r \in Slots |-> Idle]
  /\ hist = InitHist({1}, {})
  /\ budget = [ticks |-> MaxTicks, logins |-> MaxLogins, reqs |-> 0]
  /\ calc = NoCalc

NextLogin ==
  \/ Tick
  \/ \E r \in Slots : LoginAuth(r)
  \/ \E r \in Slots : LoginUpdate(r)
  \/ \E r \in Slots : Finish(r)

SpecLogin == InitLogin /\ [][NextLogin]_vars

----------------------------------------------------------------------------
(* The server: one user with one goal, all coin-awarding requests *)

Init ==
  /\ now = StartHour
  /\ \E l \in {NoLogin, StartHour} :
       users = [u \in {1} |-> [coins |-> 0, streak |-> 0, lastLogin |-> l]]
  /\ expenses = {}
  /\ savings = {}
  /\ goals = [g \in {1} |-> [userId |-> 1, name |-> "g1", targetAmount |-> GoalTarget,
                             currentAmount |-> 0, completed |-> FALSE]]
  /\ achievements = {}
  /\ predictions = {}
  /\ sessions = {}
  /\ userContext = [u \in DOMAIN users |-> users[u].coins]
  /\ nextId = [expense |-> 1, saving |-> 1, goal |-> 2, achievement |-> 1,
               prediction |-> 1]
  /\ goalView = goals
  /\ reqs = [r \in Slots |-> Idle]
  /\ hist = InitHist({1}, {1})
  /\ budget = [ticks |-> 0, logins |-> MaxSpecLogins, reqs |-> MaxReqs]
  /\ calc = NoCalc

Next ==
  \/ FetchGoals
  \/ \E r \in Slots : LoginAuth(r)
  \/ \E r \in Slots : LoginUpdate(r)
  \/ \E r \in Slots : ExpenseStart(r)
  \/ \E r \in Slots : ExpenseCreate(r)
  \/ \E r \in Slots : ExpenseCount(r)
  \/ \E r \in Slots : ExpenseAward(r)
  \/ \E r \in Slots : ExpenseRespond(r)
  \/ \E r \in Slots : SavingStart(r)
  \/ \E r \in Slots : SavingCreate(r)
  \/ \E r \in Slots : SavingAward(r)
  \/ \E r \in Slots : GoalPutStart(r)
  \/ \E r \in Slots : GoalPutRead(r)
  \/ \E r \in Slots : GoalPutAward(r)
  \/ \E r \in Slots : GoalPutAchievement(r)
  \/ \E r \in Slots : GoalPutUpdate(r)
  \/ \E r \in Slots : GoalPutRespond(r)
  \/ \E r \in Slots : Finish(r)

Spec == Init /\ [][Next]_vars

----------------------------------------------------------------------------
(* The goal updates alone, with storage calls that can fail *)

InitGoal ==
  /\ now = StartHour
  /\ users = [u \in {1} |-> [coins |-> 0, streak |-> 0, lastLogin |-> StartHour]]
  /\ expenses = {}
  /\ savings = {}
  /\ goals = [g \in {1} |-> [userId |-> 1, name |-> "g1", targetAmount |-> GoalTarget,
                             currentAmount |-> 0, completed |-> FALSE]]
  /\ achievements = {}
  /\ predictions = {}
  /\ sessions = {}
  /\ userContext = [u \in DOMAIN users |-> users[u].coins]
  /\ nextId = [expense |-> 1, saving |-> 1, goal |-> 2, achievement |-> 1,
               prediction |-> 1]
  /\ goalView = goals
  /\ reqs = [r \in Slots |-> Idle]
  /\ hist = InitHist({1}, {1})
  /\ budget = [ticks |-> 0, logins |-> 0, reqs |-> MaxGoalReqs]
  /\ calc = NoCalc

NextGoal ==
  \/ FetchGoals
  \/ \E r \in Slots : GoalPutStart(r)
  \/ \E r \in Slots : GoalPutRead(r)
  \/ \E r \in Slots : GoalPutAward(r)
  \/ \E r \in Slots : GoalPutAchievement(r)
  \/ \E r \in Slots : GoalPutUpdate(r)
  \/ \E r \in Slots : GoalPutRespond(r)
  \/ \E r \in Slots : GoalPutFail(r)
  \/ \E r \in Slots : Finish(r)

SpecGoal == InitGoal /\ [][NextGoal]_vars

----------------------------------------------------------------------------
(* The savings target: a user with any of these expenses opens the pages *)

(* expenses around the current week (hours 96 .. 263 when now is 100): on
   its Monday 00:00, inside it, in its last hour, in the last hour of the
   week before and on the Monday 00:00 after *)
WeekExpenses ==
  {[id |-> 1, userId |-> 1, date |-> StartHour, amount |-> 20000,
    status |-> "avoidable", category |-> "food_and_drinks"],
   [id |-> 2, userId |-> 1, date |-> 96, amount |-> 10000,
    status |-> "unnecessary", category |-> "entertainment"],
   [id |-> 3, userId |-> 1, date |-> StartHour, amount |-> 5000,
    status |-> "necessary", category |-> "groceries"],
   [id |-> 4, userId |-> 1, date |-> 263, amount |-> 1,
    status |-> "avoidable", category |-> "other"],
   [id |-> 5, userId |-> 1, date |-> 95, amount |-> 3000,
    status |-> "unnecessary", category |-> "shopping"],
   [id |-> 6, userId |-> 1, date |-> 264, amount |-> 7000,
    status |-> "avoidable", category |-> "travel"],
   [id |-> 7, userId |-> 1, date |-> 96, amount |-> 3,
    status |-> "necessary", category |-> "bills"]}

InitSavings ==
  /\ now = StartHour
  /\ users = [u \in {1} |-> [coins |-> 0, streak |-> 0, lastLogin |-> StartHour]]
  /\ expenses \in SUBSET WeekExpenses
  /\ savings = {}
  /\ goals = << >>
  /\ achievements = {}
  /\ predictions = {}
  /\ sessions = {}
  /\ userContext = [u \in DOMAIN users |-> users[u].coins]
  /\ nextId = [expense |-> 8, saving |-> 1, goal |-> 1, achievement |-> 1,
               prediction |-> 1]
  /\ goalView = << >>
  /\ reqs = [r \in Slots |-> Idle]
  /\ hist = InitHist({1}, {})
  /\ budget = [ticks |-> 0, logins |-> 0, reqs |-> 0]
  /\ calc = NoCalc

NextSavings ==
  \/ SavingsPage
  \/ ExpensesPage
  \/ LeavePage

SpecSavings == InitSavings /\ [][NextSavings]_vars

----------------------------------------------------------------------------
(* The fallback tier rule on every category and around every threshold *)

(* the 15 labels and a free-form category outside them *)
TierCategories == Categories \cup {"pets"}

(* amounts in paise: 0, the two amounts of the example (Rs 500, Rs 2500),
   and each threshold with the paisa after it *)
TierAmounts ==
  {0, 50000, 250000, 100000, 100001, 200000, 200001, 300000, 300001,
   500000, 500001}

InitTier ==
  /\ now = StartHour
  /\ users = [u \in {1} |-> [coins |-> 0, streak |-> 0, lastLogin |-> StartHour]]
  /\ expenses = {}
  /\ savings = {}
  /\ goals = << >>
  /\ achievements = {}
  /\ predictions = {}
  /\ sessions = {}
  /\ userContext = [u \in DOMAIN users |-> users[u].coins]
  /\ nextId = [expense |-> 1, saving |-> 1, goal |-> 1, achievement |-> 1,
               prediction |-> 1]
  /\ goalView = << >>
  /\ reqs = [r \in Slots |-> Idle]
  /\ hist = InitHist({1}, {})
  /\ budget = [ticks |-> 0, logins |-> 0, reqs |-> 0]
  /\ \E c \in TierCategories, a \in TierAmounts :
       calc = [fn |-> "fallbackStatusDetermination", category |-> c,
               amount |-> a, result |-> ""]

NextTier == FallbackStatusCall

SpecTier == InitTier /\ [][NextTier]_vars

----------------------------------------------------------------------------
(* Expense creation with the category and / or the tier left to the server *)

InitExpense ==
  /\ now = StartHour
  /\ users = [u \in {1} |-> [coins |-> 0, streak |-> 0, lastLogin |-> StartHour]]
  /\ expenses = {}
  /\ savings = {}
  /\ goals = << >>
  /\ achievements = {}
  /\ predictions = {}
  /\ sessions = {}
  /\ userContext = [u \in DOMAIN users |-> users[u].coins]
  /\ nextId = [expense |-> 1, saving |-> 1, goal |-> 1, achievement |-> 1,
               prediction |-> 1]
  /\ goalView = << >>
  /\ reqs = [r \in Slots |-> Idle]
  /\ hist = InitHist({1}, {})
  /\ budget = [ticks |-> 0, logins |-> 0, reqs |-> MaxAutoFillReqs]
  /\ calc = NoCalc

NextExpense ==
  \/ \E r \in Slots : ExpenseStartAutoFill(r)
  \/ \E r \in Slots : ExpenseCreate(r)
  \/ \E r \in Slots : ExpenseCount(r)
  \/ \E r \in Slots : ExpenseAward(r)
  \/ \E r \in Slots : ExpenseRespond(r)
  \/ \E r \in Slots : Finish(r)

SpecExpense == InitExpense /\ [][NextExpense]_vars

----------------------------------------------------------------------------
(* The monthly report: a user with any of these expenses asks for it *)

(* insertExpenseSchema takes every integer amount: 0 and negative amounts
   can be stored.  The last expense is dated in the next month. *)
ReportExpenses ==
  {[id |-> 1, userId |-> 1, date |-> StartHour, amount |-> 0,
    status |-> "necessary", category |-> "other"],
   [id |-> 2, userId |-> 1, date |-> StartHour, amount |-> 29,
    status |-> "necessary", category |-> "groceries"],
   [id |-> 3, userId |-> 1, date |-> StartHour - HoursPerDay, amount |-> 171,
    status |-> "unnecessary", category |-> "entertainment"],
   [id |-> 4, userId |-> 1, date |-> StartHour, amount |-> -29,
    status |-> "avoidable", category |-> "travel"],
   [id |-> 5, userId |-> 1, date |-> StartHour, amount |-> 100,
    status |-> "avoidable", category |-> "groceries"],
   [id |-> 6, userId |-> 1, date |-> StartHour, amount |-> 29,
    status |-> "unnecessary", category |-> "shopping"],
   [id |-> 7, userId |-> 1, date |-> 800, amount |-> 50,
    status |-> "unnecessary", category |-> "gifts"]}

(* The month windows: expenses around the ends of January and February,
   dated on 1 January 00:00, 30 January 23:00, 31 January 00:00, 31 January
   10:00 and 23:00, 1 February 00:00, 28 February 23:00; the amounts are
   powers of 2, so a total tells which expenses are in it *)
MonthExpenses ==
  {[id |-> 1, userId |-> 1, date |-> 0, amount |-> 1,
    status |-> "necessary", category |-> "other"],
   [id |-> 2, userId |-> 1, date |-> 719, amount |-> 2,
    status |-> "avoidable", category |-> "other"],
   [id |-> 3, userId |-> 1, date |-> 720, amount |-> 4,
    status |-> "unnecessary", category |-> "other"],
   [id |-> 4, userId |-> 1, date |-> 730, amount |-> 8,
    status |-> "avoidable", category |-> "other"],
   [id |-> 5, userId |-> 1, date |-> 743, amount |-> 16,
    status |-> "necessary", category |-> "other"],
   [id |-> 6, userId |-> 1, date |-> 744, amount |-> 32,
    status |-> "necessary", category |-> "other"],
   [id |-> 7, userId |-> 1, date |-> 1415, amount |-> 64,
    status |-> "unnecessary", category |-> "other"]}

InitReport ==
  /\ now = StartHour
  /\ users = [u \in {1} |-> [coins |-> 0, streak |-> 0, lastLogin |-> StartHour]]
  /\ expenses \in (SUBSET ReportExpenses) \cup (SUBSET MonthExpenses)
  /\ savings = {}
  /\ goals = << >>
  /\ achievements = {}
  /\ predictions = {}
  /\ sessions = {}
  /\ userContext = [u \in DOMAIN users |-> users[u].coins]
  /\ nextId = [expense |-> 8, saving |-> 1, goal |-> 1, achievement |-> 1,
               prediction |-> 1]
  /\ goalView = << >>
  /\ reqs = [r \in Slots |-> Idle]
  /\ hist = InitHist({1}, {})
  /\ budget = [ticks |-> 0, logins |-> 0, reqs |-> 0]
  /\ calc = NoCalc

NextReport ==
  \/ MonthlyReport
  \/ MonthlyReportOf
  \/ DashboardSummary
  \/ LeavePage

SpecReport == InitReport /\ [][NextReport]_vars

----------------------------------------------------------------------------
(* Ownership: user 2 updates and deletes by id among the rows of two users *)

InitOwner ==
  /\ now = StartHour
  /\ users = [u \in {1, 2} |-> [coins |-> 0, streak |-> 0, lastLogin |-> StartHour]]
  /\ expenses = {[id |-> u, userId |-> u, date |-> StartHour, amount |-> 1,
                  status |-> "necessary", category |-> "other"] : u \in {1, 2}}
  /\ savings = {[id |-> u, userId |-> u, amount |-> 1, source |-> "piggy_bank"] :
                  u \in {1, 2}}
  /\ goals = [g \in {1, 2} |-> [userId |-> g, name |-> "g", targetAmount |-> GoalTarget,
                                currentAmount |-> 0, completed |-> FALSE]]
  /\ achievements = {}
  /\ predictions = {}
  /\ sessions = {}
  /\ userContext = [u \in DOMAIN users |-> users[u].coins]
  /\ nextId = [expense |-> 3, saving |-> 3, goal |-> 3, achievement |-> 1,
               prediction |-> 1]
  /\ goalView = goals
  /\ reqs = [r \in Slots |-> Idle]
  /\ hist = InitHist({1, 2}, {1, 2})
  /\ budget = [ticks |-> 0, logins |-> 0, reqs |-> MaxOwnerReqs]
  /\ calc = NoCalc

NextOwner ==
  \/ \E r \in Slots : ExpensePutStart(r)
  \/ \E r \in Slots : ExpensePutRead(r)
  \/ \E r \in Slots : ExpensePutUpdate(r)
  \/ \E r \in Slots : DeleteStart(r)
  \/ \E r \in Slots : DeleteRead(r)
  \/ \E r \in Slots : DeleteRow(r)
  \/ \E r \in Slots : GoalPutStartById(r)
  \/ \E r \in Slots : GoalPutRead(r)
  \/ \E r \in Slots : GoalPutAward(r)
  \/ \E r \in Slots : GoalPutAchievement(r)
  \/ \E r \in Slots : GoalPutUpdate(r)
  \/ \E r \in Slots : GoalPutRespond(r)
  \/ \E r \in Slots : Finish(r)

SpecOwner == InitOwner /\ [][NextOwner]_vars

----------------------------------------------------------------------------
(* The create handlers with bodies that pass and bodies that fail the schema *)

InitCreate ==
  /\ now = StartHour
  /\ users = [u \in {1, 2} |-> [coins |-> 0, streak |-> 0, lastLogin |-> StartHour]]
  /\ expenses = {}
  /\ savings = {}
  /\ goals = << >>
  /\ achievements = {}
  /\ predictions = {}
  /\ sessions = {}
  /\ userContext = [u \in DOMAIN users |-> users[u].coins]
  /\ nextId = [expense |-> 1, saving |-> 1, goal |-> 1, achievement |-> 1,
               prediction |-> 1]
  /\ goalView = << >>
  /\ reqs = [r \in Slots |-> Idle]
  /\ hist = InitHist({1, 2}, {})
  /\ budget = [ticks |-> 0, logins |-> 0, reqs |-> MaxCreateReqs]
  /\ calc = NoCalc

NextCreate ==
  \/ \E r \in Slots : ExpenseStartFlawed(r)
  \/ \E r \in Slots : ExpenseCreate(r)
  \/ \E r \in Slots : ExpenseCount(r)
  \/ \E r \in Slots : ExpenseAward(r)
  \/ \E r \in Slots : ExpenseRespond(r)
  \/ \E r \in Slots : SavingStartFlawed(r)
  \/ \E r \in Slots : SavingCreate(r)
  \/ \E r \in Slots : SavingAward(r)
  \/ \E r \in Slots : GoalCreateStart(r)
  \/ \E r \in Slots : GoalCreate(r)
  \/ \E r \in Slots : Finish(r)

SpecCreate == InitCreate /\ [][NextCreate]_vars

----------------------------------------------------------------------------
(* The life of the expenses of one user: create, edit, delete *)

InitEdit ==
  /\ now = StartHour
  /\ users = [u \in {1} |-> [coins |-> 0, streak |-> 0, lastLogin |-> StartHour]]
  /\ expenses = {}
  /\ savings = {}
  /\ goals = << >>
  /\ achievements = {}
  /\ predictions = {}
  /\ sessions = {}
  /\ userContext = [u \in DOMAIN users |-> users[u].coins]
  /\ nextId = [expense |-> 1, saving |-> 1, goal |-> 1, achievement |-> 1,
               prediction |-> 1]
  /\ goalView = << >>
  /\ reqs = [r \in Slots |-> Idle]
  /\ hist = InitHist({1}, {})
  /\ budget = [ticks |-> 0, logins |-> 0, reqs |-> MaxEditReqs]
  /\ calc = NoCalc

NextEdit ==
  \/ \E r \in Slots : ExpenseStartAmount(r)
  \/ \E r \in Slots : ExpenseCreate(r)
  \/ \E r \in Slots : ExpenseCount(r)
  \/ \E r \in Slots : ExpenseAward(r)
  \/ \E r \in Slots : ExpenseRespond(r)
  \/ \E r \in Slots : ExpenseEditStart(r)
  \/ \E r \in Slots : ExpensePutRead(r)
  \/ \E r \in Slots : ExpensePutUpdate(r)
  \/ \E r \in Slots : ExpenseDeleteStart(r)
  \/ \E r \in Slots : DeleteRead(r)
  \/ \E r \in Slots : DeleteRow(r)
  \/ \E r \in Slots : Finish(r)

SpecEdit == InitEdit /\ [][NextEdit]_vars

----------------------------------------------------------------------------
(* Predictions: user 1 logs expenses and generates, user 2 has no expense *)

InitPredict ==
  /\ now = StartHour
  /\ users = [u \in {1, 2} |-> [coins |-> 0, streak |-> 0, lastLogin |-> StartHour]]
  /\ expenses = {[id |-> 1, userId |-> 1, date |-> StartHour, amount |-> 2,
                  status |-> "necessary", category |-> "groceries"]}
  /\ savings = {}
  /\ goals = << >>
  /\ achievements = {}
  /\ predictions = {}
  /\ sessions = {}
  /\ userContext = [u \in DOMAIN users |-> users[u].coins]
  /\ nextId = [expense |-> 2, saving |-> 1, goal |-> 1, achievement |-> 1,
               prediction |-> 1]
  /\ goalView = << >>
  /\ reqs = [r \in Slots |-> Idle]
  /\ hist = InitHist({1, 2}, {})
  /\ budget = [ticks |-> 0, logins |-> 0, reqs |-> MaxPredictReqs]
  /\ calc = NoCalc

NextPredict ==
  \/ \E r \in Slots : PredictStart(r)
  \/ \E r \in Slots : PredictRead(r)
  \/ \E r \in Slots : PredictLookup(r)
  \/ \E r \in Slots : PredictWrite(r)
  \/ \E r \in Slots : ExpenseStartAmount(r)
  \/ \E r \in Slots : ExpenseCreate(r)
  \/ \E r \in Slots : ExpenseCount(r)
  \/ \E r \in Slots : ExpenseAward(r)
  \/ \E r \in Slots : ExpenseRespond(r)
  \/ \E r \in Slots : Finish(r)

SpecPredict == InitPredict /\ [][NextPredict]_vars

----------------------------------------------------------------------------
(* Allocations from the goal card: the PUT, then the saving entry *)

InitAlloc ==
  /\ now = StartHour
  /\ users = [u \in {1} |-> [coins |-> 0, streak |-> 0, lastLogin |-> StartHour]]
  /\ expenses = {}
  /\ savings = {}
  /\ goals = [g \in {1} |-> [userId |-> 1, name |-> "g1", targetAmount |-> GoalTarget,
                             currentAmount |-> 0, completed |-> FALSE]]
  /\ achievements = {}
  /\ predictions = {}
  /\ sessions = {}
  /\ userContext = [u \in DOMAIN users |-> users[u].coins]
  /\ nextId = [expense |-> 1, saving |-> 1, goal |-> 2, achievement |-> 1,
               prediction |-> 1]
  /\ goalView = goals
  /\ reqs = [r \in Slots |-> Idle]
  /\ hist = InitHist({1}, {1})
  /\ budget = [ticks |-> 0, logins |-> 0, reqs |-> MaxAllocReqs]
  /\ calc = NoCalc

NextAlloc ==
  \/ FetchGoals
  \/ \E r \in Slots : AllocationStart(r)
  \/ \E r \in Slots : GoalPutRead(r)
  \/ \E r \in Slots : GoalPutAward(r)
  \/ \E r \in Slots : GoalPutAchievement(r)
  \/ \E r \in Slots : GoalPutUpdate(r)
  \/ \E r \in Slots : GoalPutRespond(r)
  \/ \E r \in Slots : AllocationSaving(r)
  \/ \E r \in Slots : SavingCreate(r)
  \/ \E r \in Slots : SavingFail(r)
  \/ \E r \in Slots : AllocationFinish(r)

SpecAlloc == InitAlloc /\ [][NextAlloc]_vars

----------------------------------------------------------------------------
(* Ownership, with request bodies that name the owner column *)

NextOwnerBody ==
  \/ \E r \in Slots : ExpensePutStart(r)
  \/ \E r \in Slots : ExpensePutRead(r)
  \/ \E r \in Slots : ExpensePutUpdate(r)
  \/ \E r \in Slots : DeleteStart(r)
  \/ \E r \in Slots : DeleteRead(r)
  \/ \E r \in Slots : DeleteRow(r)
  \/ \E r \in Slots : GoalPutStartById(r)
  \/ \E r \in Slots : GoalPutStartUserId(r)
  \/ \E r \in Slots : GoalPutRead(r)
  \/ \E r \in Slots : GoalPutAward(r)
  \/ \E r \in Slots : GoalPutAchievement(r)
  \/ \E r \in Slots : GoalPutUpdate(r)
  \/ \E r \in Slots : GoalPutRespond(r)
  \/ \E r \in Slots : Finish(r)

SpecOwnerBody == InitOwner /\ [][NextOwnerBody]_vars

----------------------------------------------------------------------------
(* Registration and login: the demo user is there, anyone registers *)

InitAuth ==
  /\ now = StartHour
  /\ users = [u \in {1} |-> [coins |-> 0, streak |-> 0, lastLogin |-> StartHour,
                             username |-> "demo"]]
  /\ expenses = {}
  /\ savings = {}
  /\ goals = << >>
  /\ achievements = {}
  /\ predictions = {}
  /\ sessions = {}
  /\ userContext = [u \in DOMAIN users |-> users[u].coins]
  /\ nextId = [expense |-> 1, saving |-> 1, goal |-> 1, achievement |-> 1,
               prediction |-> 1]
  /\ goalView = << >>
  /\ reqs = [r \in Slots |-> Idle]
  /\ hist = InitHist({1}, {})
  /\ budget = [ticks |-> 0, logins |-> MaxAuthReqs, reqs |-> MaxAuthReqs]
  /\ calc = NoCalc

NextAuth ==
  \/ \E r \in Slots : RegisterStart(r)
  \/ \E r \in Slots : RegisterLookup(r)
  \/ \E r \in Slots : RegisterCreate(r)
  \/ \E r \in Slots : RegisterLogin(r)
  \/ \E r \in Slots : LoginMissingCredentials(r)
  \/ \E r \in Slots : LoginAuth(r)
  \/ \E r \in Slots : LoginUpdate(r)
  \/ \E r \in Slots : Finish(r)

SpecAuth == InitAuth /\ [][NextAuth]_vars

----------------------------------------------------------------------------
(* One user at the client: login, add expense, piggy bank, goal card *)

InitClient ==
  /\ now = StartHour
  /\ \E l \in {NoLogin, StartHour} :
       users = [u \in {1} |-> [coins |-> 0, streak |-> 0, lastLogin |-> l]]
  /\ expenses = {}
  /\ savings = {}
  /\ goals = [g \in {1} |-> [userId |-> 1, name |-> "g1", targetAmount |-> GoalTarget,
                             currentAmount |-> 0, completed |-> FALSE]]
  /\ achievements = {}
  /\ predictions = {}
  /\ sessions = {}
  /\ userContext = [u \in DOMAIN users |-> users[u].coins]
  /\ nextId = [expense |-> 1, saving |-> 1, goal |-> 2, achievement |-> 1,
               prediction |-> 1]
  /\ goalView = goals
  /\ reqs = [r \in Slots |-> Idle]
  /\ hist = InitHist({1}, {1})
  /\ budget = [ticks |-> 0, logins |-> MaxClientLogins, reqs |-> MaxClientReqs]
  /\ calc = NoCalc

NextClient ==
  \/ FetchGoals
  \/ \E r \in Slots : LoginAuth(r)
  \/ \E r \in Slots : LoginUpdate(r)
  \/ \E r \in Slots : ExpenseStart(r)
  \/ \E r \in Slots : ExpenseCreate(r)
  \/ \E r \in Slots : ExpenseCount(r)
  \/ \E r \in Slots : ExpenseAward(r)
  \/ \E r \in Slots : ExpenseRespond(r)
  \/ \E r \in Slots : PiggyBankStart(r)
  \/ \E r \in Slots : SavingCreate(r)
  \/ \E r \in Slots : SavingAward(r)
  \/ \E r \in Slots : GoalPutStart(r)
  \/ \E r \in Slots : GoalPutRead(r)
  \/ \E r \in Slots : GoalPutAward(r)
  \/ \E r \in Slots : GoalPutAchievement(r)
  \/ \E r \in Slots : GoalPutUpdate(r)
  \/ \E r \in Slots : GoalPutRespond(r)
  \/ \E r \in Slots : AllocationSaving(r)
  \/ \E r \in Slots : ClientHandleResponse(r)

SpecClient == InitClient /\ [][NextClient]_vars

----------------------------------------------------------------------------
(* The life of the goals of one user: create, edit, allocate, mark complete *)

InitGoalLife ==
  /\ now = StartHour
  /\ users = [u \in {1} |-> [coins |-> 0, streak |-> 0, lastLogin |-> StartHour]]
  /\ expenses = {}
  /\ savings = {}
  /\ goals = << >>
  /\ achievements = {}
  /\ predictions = {}
  /\ sessions = {}
  /\ userContext = [u \in DOMAIN users |-> users[u].coins]
  /\ nextId = [expense |-> 1, saving |-> 1, goal |-> 1, achievement |-> 1,
               prediction |-> 1]
  /\ goalView = << >>
  /\ reqs = [r \in Slots |-> Idle]
  /\ hist = InitHist({1}, {})
  /\ budget = [ticks |-> 0, logins |-> 0, reqs |-> MaxGoalLifeReqs]
  /\ calc = NoCalc

NextGoalLife ==
  \/ FetchGoals
  \/ \E r \in Slots : GoalCreateStart(r)
  \/ \E r \in Slots : GoalCreate(r)
  \/ \E r \in Slots : GoalEditStart(r)
  \/ \E r \in Slots : GoalPutStart(r)
  \/ \E r \in Slots : GoalPutRead(r)
  \/ \E r \in Slots : GoalPutAward(r)
  \/ \E r \in Slots : GoalPutAchievement(r)
  \/ \E r \in Slots : GoalPutUpdate(r)
  \/ \E r \in Slots : GoalPutRespond(r)
  \/ \E r \in Slots : Finish(r)

SpecGoalLife == InitGoalLife /\ [][NextGoalLife]_vars

----------------------------------------------------------------------------
(* Properties of the login engine (SpecLogin) *)

(* a login that was authenticated and has sent its 200 response *)
LoginDone(r) ==
  /\ reqs[r].kind = "login"
  /\ reqs[r].pc = "done"
  /\ reqs[r].status = 200

(* C2: a successful login with hoursSinceLastLogin <= 20 leaves the user's
   streak, coins and lastLogin as they were before the login. *)
C2_GuardBandIsNoOp ==
  \A r \in Slots :
    (LoginDone(r) /\ reqs[r].hours <= GuardHours) =>
      /\ reqs[r].post.streak = reqs[r].pre.streak
      /\ reqs[r].post.coins = reqs[r].pre.coins
      /\ reqs[r].post.lastLogin = reqs[r].pre.lastLogin

(* C3: a successful login more than 20 and less than 48 hours after the
   user's latest coin-awarding login takes the increment branch: it awards
   coins and stores the streak it read plus one. *)
C3_WindowCountsFromLastAward ==
  \A r \in Slots :
    (LoginDone(r) /\ reqs[r].sinceAward > GuardHours
                  /\ reqs[r].sinceAward < ResetHours) =>
      /\ reqs[r].coinsAwarded > 0
      /\ reqs[r].post.streak = reqs[r].user.streak + 1

(* C4: a successful login with 20 < hoursSinceLastLogin < 48 stores the
   streak it read plus one, awards at least 15 coins on top of the coins it
   read and stores lastLogin = now. *)
C4_IncrementBranch ==
  \A r \in Slots :
    (LoginDone(r) /\ reqs[r].hours > GuardHours /\ reqs[r].hours < ResetHours) =>
      /\ reqs[r].post.streak = reqs[r].user.streak + 1
      /\ reqs[r].coinsAwarded >= DailyLoginCoins
      /\ reqs[r].post.coins = reqs[r].user.coins + reqs[r].coinsAwarded
      /\ reqs[r].post.lastLogin = reqs[r].at

C4_Witness ==
  \E r \in Slots :
    /\ LoginDone(r)
    /\ reqs[r].hours > GuardHours /\ reqs[r].hours < ResetHours
    /\ reqs[r].user.streak = 4
    /\ reqs[r].post.streak = 5

(* C5: in the increment branch the award is 35 exactly when the new streak
   is a positive multiple of 5 and 15 otherwise; in the reset branch the
   award is 15, never 35. *)
C5_MilestoneBonus ==
  \A r \in Slots :
    LoginDone(r) =>
      /\ (reqs[r].hours > GuardHours /\ reqs[r].hours < ResetHours) =>
           reqs[r].coinsAwarded =
             IF reqs[r].post.streak > 0 /\ reqs[r].post.streak % StreakMilestone = 0
               THEN DailyLoginCoins + StreakBonusCoins
               ELSE DailyLoginCoins
      /\ reqs[r].hours >= ResetHours => reqs[r].coinsAwarded = DailyLoginCoins

C5_Witness ==
  \E r \in Slots :
    /\ LoginDone(r)
    /\ reqs[r].hours > GuardHours /\ reqs[r].hours < ResetHours
    /\ reqs[r].post.streak = 10
    /\ reqs[r].coinsAwarded = 35

(* C6: a successful login with hoursSinceLastLogin >= 48 stores streak = 1
   whatever the streak was, awards exactly 15 coins and stores
   lastLogin = now. *)
C6_ResetBranch ==
  \A r \in Slots :
    (LoginDone(r) /\ reqs[r].hours >= ResetHours) =>
      /\ reqs[r].post.streak = 1
      /\ reqs[r].coinsAwarded = DailyLoginCoins
      /\ reqs[r].post.coins = reqs[r].user.coins + DailyLoginCoins
      /\ reqs[r].post.lastLogin = reqs[r].at

C6_Witness ==
  \E r \in Slots :
    /\ LoginDone(r)
    /\ reqs[r].hours = ResetHours
    /\ reqs[r].user.streak > 1
    /\ reqs[r].post.streak = 1

(* C7: the first successful login of a user without lastLogin stores
   streak = 1 and awards exactly 15 coins, whatever the stored streak. *)
C7_FirstLogin ==
  \A r \in Slots :
    (LoginDone(r) /\ reqs[r].user.lastLogin = NoLogin) =>
      /\ reqs[r].post.streak = 1
      /\ reqs[r].coinsAwarded = DailyLoginCoins
      /\ reqs[r].respCoinsAwarded = <<DailyLoginCoins>>

C7_Witness ==
  \E r \in Slots :
    /\ LoginDone(r)
    /\ reqs[r].user.lastLogin = NoLogin
    /\ reqs[r].user.streak = 4
    /\ reqs[r].post.streak = 1

----------------------------------------------------------------------------
(* Properties of the coin awards under concurrent requests (Spec) *)

AllFinished == \A r \in Slots : reqs[r].pc \in {"idle", "done"}

(* C1: no increment is lost: once all the coin-awarding requests of a user
   have finished, the stored coins are the initial coins (0) plus the sum
   of the coins the requests awarded. *)
C1_NoLostIncrement ==
  AllFinished => \A u \in DOMAIN users : users[u].coins = hist.awarded[u]

(* C8: every successful login response carries the number of coins awarded
   by the call, that number is the increase of the stored coins caused by
   the call, and it is 15 or 35 in a transition branch and 0 in the guard
   band. *)
C8_ResponseCarriesAward ==
  \A r \in Slots :
    LoginDone(r) =>
      /\ reqs[r].respCoinsAwarded = <<reqs[r].post.coins - reqs[r].pre.coins>>
      /\ reqs[r].post.coins - reqs[r].pre.coins
           \in {0, DailyLoginCoins, DailyLoginCoins + StreakBonusCoins}

(* C9: the stored coins of a user never decrease from one state to the
   next. *)
C9_CoinsNeverDecrease ==
  [][\A u \in DOMAIN users : users'[u].coins >= users[u].coins]_vars

(* C10: for every goal the 100-coin award is granted at most once and at
   most one goal_met achievement is created. *)
C10_GoalAwardAtMostOnce ==
  \A g \in DOMAIN goals :
    /\ hist.goalAwards[g] <= 1
    /\ Cardinality({a \in achievements :
                      a.type = "goal_met" /\ a.name = goals[g].name}) <= 1

----------------------------------------------------------------------------
(* Properties of the goal updates *)

(* C11: the completed flag of a goal is one-way: no step of a goal update
   request takes a goal stored as completed back to not completed. *)
C11_CompletedIsOneWay ==
  [][\A g \in DOMAIN goals : goals[g].completed => goals'[g].completed]_vars

(* C12: the goal-completion award is atomic: a goal update request that has
   finished, with its 200 or with a 500 after a failed step, has made all
   three writes of the award (coins raised, goal_met row inserted, goal
   stored as completed) or none of them; a request that awards nothing has
   raised no coins and inserted no row. *)
C12_GoalAwardIsAtomic ==
  \A r \in Slots :
    (reqs[r].kind = "goal" /\ reqs[r].pc = "done") =>
      IF reqs[r].coinsAwarded > 0
        THEN reqs[r].did \in {{}, {"coins", "achievement", "goal"}}
        ELSE reqs[r].did \subseteq {"goal"}

(* C13: no allocation is lost: when the goal update requests have finished
   and all of them were allocations, the currentAmount of the goal is its
   initial value (0) plus the sum of the amounts allocated. *)
C13_NoLostAllocation ==
  AllFinished =>
    \A g \in DOMAIN goals :
      hist.marked[g] = 0 => goals[g].currentAmount = 0 + hist.allocated[g]

----------------------------------------------------------------------------
(* Properties of the expense and saving awards (Spec) *)

(* C14: an expense created when the user has logged no other expense earlier
   on the current calendar day raises the stored coins of the user by
   exactly 10 and is answered with coinsAwarded = 10. *)
C14_FirstExpenseOfDay ==
  \A r \in Slots :
    (reqs[r].kind = "expense" /\ reqs[r].pc = "done" /\ reqs[r].status = 201
       /\ reqs[r].firstOfDay) =>
      /\ reqs[r].respCoinsAwarded = <<FirstExpenseCoins>>
      /\ reqs[r].post.coins - reqs[r].pre.coins = FirstExpenseCoins

(* C15: a saving created with source piggy_bank raises the stored coins of
   the user by exactly 5 and is answered with coinsAwarded = 5; a saving
   created with another source writes no coins. *)
C15_PiggyBankAward ==
  \A r \in Slots :
    (reqs[r].kind = "saving" /\ reqs[r].pc = "done" /\ reqs[r].status = 201) =>
      IF reqs[r].body.source = "piggy_bank"
        THEN /\ reqs[r].respCoinsAwarded = <<PiggyBankCoins>>
             /\ reqs[r].post.coins - reqs[r].pre.coins = PiggyBankCoins
        ELSE /\ reqs[r].respCoinsAwarded = <<>>
             /\ "coins" \notin reqs[r].did

----------------------------------------------------------------------------
(* Properties of the savings target (SpecSavings) *)

(* the expenses of user u in the Monday to Sunday week of the clock, by the
   number of the week counted from a Monday, with tier st *)
InThisWeek(u, st) ==
  {e \in expenses :
     /\ e.userId = u
     /\ e.status = st
     /\ (e.date + EpochWeekday * HoursPerDay) \div (DaysPerWeek * HoursPerDay)
          = (now + EpochWeekday * HoursPerDay) \div (DaysPerWeek * HoursPerDay)}

(* C16: the target of the current Monday-Sunday week is half of the sum of
   the week's avoidable and unnecessary amounts, rounded to the nearest
   integer (halves up): twice the target is that sum or that sum plus one;
   totals 20000 and 10000 give 15000; necessary expenses and expenses of
   other weeks do not contribute.  The recommendation of the Expenses page
   filtered to This Week is the same number. *)
C16_WeeklyTarget ==
  (calc.fn = "generateWeeklyTargets"
     \/ (calc.fn = "calculateSavingsRecommendation" /\ calc.thisWeek)) =>
    LET avoidableTotal == SumAmounts(InThisWeek(calc.uid, "avoidable"))
        unnecessaryTotal == SumAmounts(InThisWeek(calc.uid, "unnecessary"))
        target == IF calc.fn = "generateWeeklyTargets"
                    THEN calc.result[0].target
                    ELSE calc.result.weekly
    IN /\ 2 * target - (avoidableTotal + unnecessaryTotal) \in {0, 1}
       /\ (avoidableTotal = 20000 /\ unnecessaryTotal = 10000) => target = 15000

C16_Witness ==
  /\ calc.fn = "generateWeeklyTargets"
  /\ SumAmounts(InThisWeek(calc.uid, "avoidable")) = 20001
  /\ SumAmounts(InThisWeek(calc.uid, "unnecessary")) = 10000
  /\ InThisWeek(calc.uid, "necessary") # {}
  /\ \E e \in expenses : e.date = 264
  /\ calc.result[0].target = 15001

----------------------------------------------------------------------------
(* Properties of the classification (SpecTier, SpecExpense) *)

(* C17: the fallback tier rule returns, for every category and amount in
   paise: in the seven necessary categories avoidable above Rs 5000 and
   necessary otherwise; in food_and_drinks, personal_care, investment
   avoidable above Rs 1000 and necessary otherwise; in entertainment,
   shopping, travel, gifts unnecessary above Rs 2000 and avoidable
   otherwise; in any other category unnecessary above Rs 3000 and avoidable
   otherwise; the thresholds are strict.  Entertainment at Rs 500 is
   avoidable and at Rs 2500 unnecessary. *)
C17_FallbackTierRule ==
  (calc.fn = "fallbackStatusDetermination" /\ calc.result # "") =>
    LET c == calc.category
        a == calc.amount
    IN /\ calc.result =
            CASE c \in {"groceries", "utilities", "housing", "health",
                        "transportation", "bills", "education"} ->
                   IF a >= 500001 THEN "avoidable" ELSE "necessary"
              [] c \in {"food_and_drinks", "personal_care", "investment"} ->
                   IF a >= 100001 THEN "avoidable" ELSE "necessary"
              [] c \in {"entertainment", "shopping", "travel", "gifts"} ->
                   IF a >= 200001 THEN "unnecessary" ELSE "avoidable"
              [] OTHER ->
                   IF a >= 300001 THEN "unnecessary" ELSE "avoidable"
       /\ (c = "entertainment" /\ a = 50000) => calc.result = "avoidable"
       /\ (c = "entertainment" /\ a = 250000) => calc.result = "unnecessary"

C17_Witness ==
  /\ calc.fn = "fallbackStatusDetermination"
  /\ calc.category = "entertainment"
  /\ calc.amount = 200000
  /\ calc.result = "avoidable"

(* an expense request past its create step whose body left the category
   and / or the tier out and is otherwise a valid expense (name present,
   amount positive) *)
AutoFilled(r) ==
  /\ reqs[r].kind = "expense"
  /\ reqs[r].pc \in {"count", "award", "reread", "done"}
  /\ reqs[r].body.category = "" \/ reqs[r].body.status = ""
  /\ reqs[r].body.flaws = {}
  /\ Len(reqs[r].body.name) > 0
  /\ reqs[r].body.amount > 0

(* C18: whatever the service replies during such a creation (a valid label,
   an unexpected text, nothing, an error), the request is not rejected and
   its expense is stored, with a tier that is one of the three and, when the
   category was filled in, a category that is one of the 15 labels; a reply
   that is not a valid label, or an error, gives exactly the result of the
   fallback rule (other when no keyword matches); the service is called
   once per omitted field. *)
C18_ServiceFailureNeverSurfaces ==
  \A r \in Slots :
    AutoFilled(r) =>
      LET q == reqs[r]
          b == q.body
      IN /\ q.pc = "done" => q.status = 201
         /\ q.aiCalls = (IF b.category = "" THEN 1 ELSE 0)
                         + (IF b.status = "" THEN 1 ELSE 0)
         /\ \E e \in expenses :
              /\ e.id = q.rowId
              /\ e.userId = q.uid
              /\ e.status \in {"necessary", "avoidable", "unnecessary"}
              /\ b.category = "" => e.category \in Categories
              /\ (b.category = "" /\ q.categoryReply \notin Categories) =>
                   /\ e.category = fallbackCategorization(b.name[1])
                   /\ b.name[1] = {} => e.category = "other"
              /\ (b.status = "" /\ q.statusReply \notin Tiers) =>
                   e.status = fallbackStatusDetermination(e.category, b.amount)

C18_Witness ==
  \E r \in Slots :
    /\ AutoFilled(r)
    /\ reqs[r].pc = "done"
    /\ reqs[r].body.category = "" /\ reqs[r].body.status = ""
    /\ reqs[r].body.name = <<{"entertainment", "travel"}>>
    /\ reqs[r].body.amount = 250000
    /\ reqs[r].categoryReply = ServiceError
    /\ reqs[r].statusReply = "maybe"
    /\ \E e \in expenses :
         e.id = reqs[r].rowId /\ e.category = "entertainment"
                              /\ e.status = "unnecessary"

----------------------------------------------------------------------------
(* Properties of the monthly report (SpecReport) *)

(* C19: every category and status percentage of the monthly report is
   round(100 * groupSum / windowTotal) when the total of the window is
   positive, and is 0, never NaN or infinite, when the total of the window
   is 0, also when the window holds expenses whose amounts sum to 0. *)
C19_PercentagesDefined ==
  calc.fn = "monthlyReport" =>
    LET rep == calc.result
        total == rep.totalExpenses
        Expected(groupSum) ==
          IF total > 0 THEN (200 * groupSum + total) \div (2 * total) ELSE 0
        Ok(group) ==
          /\ group.percentage.finite
          /\ group.percentage.value = Expected(group.amount)
    IN total >= 0 =>
         /\ \A c \in DOMAIN rep.categoryBreakdown : Ok(rep.categoryBreakdown[c])
         /\ \A st \in DOMAIN rep.statusBreakdown : Ok(rep.statusBreakdown[st])
         /\ \A i \in DOMAIN rep.unnecessaryPercent : rep.unnecessaryPercent[i].finite

----------------------------------------------------------------------------
(* Properties of the ownership checks (SpecOwner) *)

(* the rows of user u and the coins of u *)
Owned(u) ==
  [expenses |-> {e \in expenses : e.userId = u},
   savings |-> {sv \in savings : sv.userId = u},
   goals |-> {<<g, goals[g]>> : g \in {x \in DOMAIN goals : goals[x].userId = u}},
   coins |-> users[u].coins]

(* C20: an update or delete request on an expense, saving or goal whose id
   is no row, or is a row of another user, is answered 404 with the same
   not-found message for both causes and makes no write; the rows and the
   coins of the user who sends no request stay as they were created. *)
C20_NotFoundForForeignAndMissing ==
  /\ \A r \in Slots :
       (reqs[r].pc = "done"
          /\ reqs[r].kind \in {"expensePut", "expenseDelete", "savingDelete",
                               "goal", "goalDelete"}
          /\ (reqs[r].goalId = 3 \/ reqs[r].goalId # reqs[r].uid
                \/ reqs[r].cause \in {"missing", "foreign"})) =>
         /\ reqs[r].status = 404
         /\ reqs[r].message =
              CASE reqs[r].kind \in {"expensePut", "expenseDelete"} -> "Expense not found"
                [] reqs[r].kind = "savingDelete" -> "Saving not found"
                [] OTHER -> "Goal not found"
         /\ reqs[r].did = {}
  /\ Owned(1) =
       [expenses |-> {[id |-> 1, userId |-> 1, date |-> StartHour, amount |-> 1,
                       status |-> "necessary", category |-> "other"]},
        savings |-> {[id |-> 1, userId |-> 1, amount |-> 1, source |-> "piggy_bank"]},
        goals |-> {<<1, [userId |-> 1, name |-> "g", targetAmount |-> GoalTarget,
                         currentAmount |-> 0, completed |-> FALSE]>>},
        coins |-> 0]

C20_Witness ==
  \E r1, r2 \in Slots :
    /\ reqs[r1].pc = "done" /\ reqs[r1].kind = "expensePut"
    /\ reqs[r1].cause = "foreign" /\ reqs[r1].status = 404
    /\ reqs[r2].pc = "done" /\ reqs[r2].kind = "expensePut"
    /\ reqs[r2].cause = "missing" /\ reqs[r2].status = 404
    /\ reqs[r1].message = reqs[r2].message

----------------------------------------------------------------------------
(* Properties of the create handlers (SpecCreate) *)

(* a create request whose body fails the schema of its route: a field the
   schema rejects, no name, a tier that is given and is not one of the
   three, or no tier and nothing the server derives one from *)
FailsSchema(q) ==
  /\ q.kind \in {"expense", "saving", "goalCreate"}
  /\ \/ q.body.flaws # {}
     \/ /\ q.kind = "expense"
        /\ \/ Len(q.body.name) = 0
           \/ q.body.status \notin Tiers \cup {""}

(* C21: the step in which the handler of a create request with such a body
   leaves its entry point answers 400 with at least one field named, and
   changes no table: no expense, saving or goal row is created and no
   user's coins change. *)
C21_InvalidCreateRejected ==
  [][\A r \in Slots :
       (/\ reqs[r].pc = "handler"
        /\ FailsSchema(reqs[r])
        /\ reqs'[r].pc # "handler")
       => /\ reqs'[r].pc = "done"
          /\ reqs'[r].status = 400
          /\ reqs'[r].issues # {}
          /\ reqs'[r].did = {}
          /\ expenses' = expenses
          /\ savings' = savings
          /\ goals' = goals
          /\ users' = users]_vars

(* an expense with an amount that is not an integer, a saving without a
   source or a goal without a name has been rejected *)
C21_Witness ==
  \E r \in Slots :
    /\ reqs[r].pc = "done"
    /\ reqs[r].status = 400
    /\ reqs[r].did = {}
    /\ \/ reqs[r].kind = "expense" /\ reqs[r].issues = {"amount"}
       \/ reqs[r].kind = "saving" /\ reqs[r].issues = {"source"}
       \/ reqs[r].kind = "goalCreate" /\ reqs[r].issues = {"name"}

----------------------------------------------------------------------------
(* Properties of the stored expenses (SpecEdit) *)

(* C22: every row of the expenses table has an amount above 0 and a tier
   that is one of necessary, avoidable, unnecessary. *)
C22_StoredExpensesWellFormed ==
  \A e \in expenses : e.amount > 0 /\ e.status \in Tiers

(* C24: on no calendar day has a user received the first-expense award
   more than once, whatever expense requests were made. *)
C24_FirstExpenseAwardOncePerDay ==
  \A u \in DOMAIN users :
    \A d \in DOMAIN hist.expenseAwards[u] : hist.expenseAwards[u][d] <= 1

----------------------------------------------------------------------------
(* Properties of the predictions (SpecPredict) *)

(* C23: the predictions table never holds two rows for the same user and
   month; a generate that finds a row for the month leaves the table with
   the same rows, that one carrying the new amount and category map; a
   generate by a user without expenses answers 400 and writes nothing. *)
C23_UpsertByMonth ==
  /\ \A p1, p2 \in predictions :
       (p1.userId = p2.userId /\ p1.month = p2.month) => p1.id = p2.id
  /\ \A r \in Slots :
       (reqs[r].kind = "predict" /\ reqs[r].pc = "done" /\ getExpenses(reqs[r].uid) = {})
         => reqs[r].status = 400 /\ reqs[r].did = {}

----------------------------------------------------------------------------
(* Properties of the allocations (SpecAlloc) *)

(* C25: when no allocation is in progress, the sum of the currentAmount of
   the goals (all 0 at the start) equals the negated sum of the saving
   entries with source goal_allocation. *)
C25_AllocationMovesFunds ==
  (\A r \in Slots : reqs[r].pc = "idle")
    => SumAmounts({[id |-> g, amount |-> goals[g].currentAmount] : g \in DOMAIN goals})
       = 0 - SumAmounts({sv \in savings : sv.source = "goal_allocation"})

----------------------------------------------------------------------------
(* Properties of the owner column (SpecOwnerBody) *)

(* C26: no step changes the userId of an expense, a saving or a goal that
   is there before and after the step. *)
C26_OwnerNeverChanges ==
  [][/\ \A e \in expenses, e2 \in expenses' : e.id = e2.id => e.userId = e2.userId
     /\ \A sv \in savings, sv2 \in savings' : sv.id = sv2.id => sv.userId = sv2.userId
     /\ \A g \in DOMAIN goals \cap DOMAIN goals' :
          goals[g].userId = goals'[g].userId]_vars

----------------------------------------------------------------------------
(* Properties of the auth routes (SpecAuth) *)

(* C27: a registration whose body fails insertUserSchema, and a login whose
   body fails loginSchema, is answered 400 with the issues of the body, and
   has created no user and no session. *)
C27_AuthBodiesValidatedFirst ==
  \A r \in Slots :
    /\ (/\ reqs[r].kind = "register"
        /\ reqs[r].pc \in {"login", "done"}
        /\ \/ reqs[r].body.name # "string"
           \/ reqs[r].body.password # "string"
           \/ reqs[r].body.coins = "string")
       => /\ reqs[r].pc = "done"
          /\ reqs[r].status = 400
          /\ reqs[r].issues # {}
          /\ reqs[r].did = {}
    /\ (/\ reqs[r].kind = "login"
        /\ reqs[r].pc = "done"
        /\ reqs[r].body # NoBody
        /\ reqs[r].body.password = "missing")
       => /\ reqs[r].status = 400
          /\ reqs[r].issues # {}

----------------------------------------------------------------------------
(* Properties of the client's user context (SpecClient) *)

(* C28: when every operation the client started has completed, the coins
   of the user context are the coins of the user's row on the server. *)
C28_ContextCoinsMatchServer ==
  (\A r \in Slots : reqs[r].pc = "idle")
    => \A u \in DOMAIN users : userContext[u] = users[u].coins

----------------------------------------------------------------------------
(* Properties of the month windows (SpecReport) *)

(* C29: the total of the report of a month, and the current-month total of
   the dashboard summary, is the sum of exactly the user's expenses whose
   date lies in that calendar month. *)
C29_MonthTotalsCoverTheMonth ==
  /\ calc.fn = "monthlyReport"
       => calc.result.totalExpenses =
            SumAmounts({e \in expenses : /\ e.userId = calc.uid
                                         /\ getMonth(e.date) = calc.month})
  /\ calc.fn = "dashboardSummary"
       => calc.result.currentMonthExpenses =
            SumAmounts({e \in expenses : /\ e.userId = calc.uid
                                         /\ getMonth(e.date) = calc.month})

----------------------------------------------------------------------------
(* Properties of the goals (SpecGoalLife) *)

(* C30: every goal stored with completed = true has a currentAmount of at
   least its targetAmount. *)
C30_CompletedGoalsAreFunded ==
  \A g \in DOMAIN goals :
    goals[g].completed => goals[g].currentAmount >= goals[g].targetAmount

====
